---------------------------- MODULE Spec2Model ----------------------------
(***************************************************************************)
(* SelimCam: the shared double-buffer frame exchange (ipc.py,              *)
(* SharedFrameBuffer) and the bounded asynchronous photo-save pipeline     *)
(* (main_pc_sim.py and main_pc_sim_final.py, AsyncPhotoSaver; the          *)
(* CameraService facade of camera_service.py).                             *)
(*                                                                         *)
(* Two state machines share this module.  FbSpec runs one writer and one   *)
(* reader on a SharedFrameBuffer; SaverSpec runs the UI thread and the     *)
(* save worker of an AsyncPhotoSaver.  Each specification leaves the       *)
(* other machine's variables at their initial values.                      *)
(***************************************************************************)
EXTENDS Integers, Sequences, FiniteSets, TLC

VARIABLES
    \* ---- SharedFrameBuffer (ipc.py) ----
    metadata,       \* <<width, height, current_buffer_idx>>, the three int32s
    buffer_a,       \* slot 0: pixel position -> pixel value
    buffer_b,       \* slot 1
    wPc,            \* writer's position inside write_frame
    wFrame,         \* write_frame's argument: [shape, data]
    wIdx,           \* write_frame's local current_idx
    wCopied,        \* pixel positions np.copyto has stored so far
    wRet,           \* write_frame's last return value
    wCalls,         \* number of write_frame calls made
    wOk,            \* number of write_frame calls that returned True
    wLastOk,        \* pixel value of the last frame a write_frame call published
    wBefore,        \* <<metadata, buffer_a, buffer_b>> when the last call began
    rPc,            \* reader's position
    rRet,           \* read_frame's return value: the view it handed out
    rRead,          \* pixel positions the reader has read through the view
    rObs,           \* pixel values the reader has seen through the view
    rEarly,         \* read_frame was called before any write_frame succeeded
    \* ---- AsyncPhotoSaver (main_pc_sim.py, main_pc_sim_final.py) ----
    variant,        \* which AsyncPhotoSaver runs: "sim" or "final"
    q,              \* the queue.Queue of save tasks (self.q / self.save_queue)
    unfinished_tasks, \* queue.Queue's count of puts not yet matched by task_done
    buffer_busy,    \* state.buffer_busy (main_pc_sim.py only)
    filter_idx,     \* state.filter_idx
    date_stamp_on,  \* state.date_stamp_on / state.date_stamp_enabled
    bg_surface,     \* pixels of the surface the UI thread hands to the saver
    uiPc,           \* UI thread's position inside enqueue
    uiRet,          \* what the last enqueue / save_photo_async call returned
    nCaptures,      \* number of capture requests made; the n-th task has id n
    putOutcome,     \* how the last put_nowait ended: "none", "ok" or "Full"
    accepted,       \* ids of the tasks put_nowait accepted, in order
    wkPc,           \* worker thread's position inside its loop
    wkTask,         \* the task the worker holds
    nDeq,           \* number of q.get() calls that returned
    nDone,          \* number of save attempts that ended (saved or raised)
    wkResult,       \* how the last save attempt ended, and the image it wrote
    callbackLog,    \* (success, path) callback invocations made so far
    \* ---- CameraService (camera_service.py) ----
    process,        \* CameraService.process
    svcCalls,       \* CameraService methods that have run and changed the run's course
    \* ---- AppController (core/app_controller.py) ----
    state,          \* AppController.state: the AppState record
    hitboxes,       \* AppController.hitboxes: the dict, as its items in order
    perf_counter,   \* the reading of time.perf_counter(), in units of 10 microseconds
    nCalls,         \* number of handle, tick and mark_dirty calls made
    callBudget,     \* number of such calls the run makes
    lastCall,       \* the last call that wrote AppState, with its argument
    trail,          \* filter_idx over the current row of ENCODER_DETENT(+) events
    popRet,         \* what the last pop_dirty returned
    marked,         \* every rectangle ever appended to dirty_rects, in order
    nPopped,        \* number of rectangles pop_dirty has returned so far
    \* ---- CameraProcess (camera_service.py), InputHandler (main_pc_sim.py) ----
    camera,         \* CameraProcess.camera: "None" or "Picamera2"
    ExposureValue,  \* the camera's ExposureValue control, in tenths of an EV:
                    \* <<>> while no value was set, else <<value>>
    zoom_level,     \* the simulator's st.zoom_level, in tenths
    sim_scene,      \* the simulator's st.scene
    camCalls,       \* number of setter calls and zoom inputs made
    camLast,        \* the last setter call or zoom input, with its argument
    \* ---- CameraProcess lifecycle (camera_service.py) ----
    running,        \* CameraProcess.running
    preview_active, \* CameraProcess.preview_active
    recording,      \* CameraProcess.recording
    frame_count,    \* CameraProcess.frame_count
    dropped_frames, \* CameraProcess.stats.dropped_frames
    capture_count,  \* CameraProcess.stats.capture_count
    runPc,          \* run()'s position: "idle", "loop", "write", "stats" or "done"
    runW,           \* wCalls when run() obtained the frame it is writing
    capRet,         \* what the last capture_preview_frame returned
    missed,         \* number of times the camera was asked for a frame and gave none
    frames_ready,   \* number of FRAME_READY notifications sent
    procCalls,      \* number of CameraProcess method calls and loop iterations
    procLast,       \* the last CameraProcess step: [op, raised, ret]
    shutdown_called, \* shutdown() has been called on the CameraProcess
    photo,          \* the last capture_photo call: its inputs and what came of it
    \* ---- RotaryEncoder (rotary_encoder.py) ----
    position,       \* RotaryEncoder.position
    last_state,     \* RotaryEncoder.last_state: the 2-bit state the last ISR saw
    last_event_time, \* RotaryEncoder.last_event_time
    rotation_times, \* RotaryEncoder.rotation_times
    button_pressed, \* RotaryEncoder.button_pressed
    button_press_time, \* RotaryEncoder.button_press_time
    long_press_triggered, \* RotaryEncoder.long_press_triggered
    raw_counter,    \* RotaryEncoder._raw_counter
    pin_ab,         \* the level of pins A and B, as (a << 1) | b
    pin_button_level, \* the level of the button pin: 0 while held down
    encClock,       \* the reading of time.perf_counter(), in milliseconds
    pollPc,         \* poll()'s position: "idle", "locked", "rotation", "button",
                    \* "long" or "release"
    pollNow,        \* poll()'s local now
    raw_count,      \* poll()'s local raw_count
    rotateLog,      \* the directions on_rotate was called with, in order
    pressLog,       \* the on_press and on_long_press calls made, in order
    nIsr,           \* number of encoder interrupts so far
    nPolls,         \* number of poll() calls so far
    nAdv,           \* number of clock steps so far
    nPress,         \* number of button interrupts so far
    pollLast,       \* the last poll's raw count and whether it was accepted
    counter_lock,   \* RotaryEncoder._counter_lock: "free", or "poll" while poll() holds it
    isrTotal,       \* sum of the directions of the valid transitions the ISR saw
    polledTotal,    \* sum of the raw counts poll() has read and reset
    press_duration, \* poll()'s local press_duration
    isrButtonPc,    \* _isr_button()'s position: "idle", "time" or "flag"
    button_release_time, \* the clock reading when the button came up last
    \* ---- HapticController (haptic_driver.py) ----
    hapConstructed, \* HapticController(config) has run
    base_amplitude, \* HapticController.base_amplitude, in hundredths
    amplitude_scale, \* DRV2605L.amplitude_scale, in hundredths
    hap_initialized, \* DRV2605L.initialized
    final_amplitude, \* play_effect's last final_amplitude, in hundredths
    requested,      \* the amplitude asked for last: configured or set_intensity's
    hapCalls        \* number of set_intensity and feedback calls made

fbVars == <<metadata, buffer_a, buffer_b, wPc, wFrame, wIdx, wCopied, wRet,
            wCalls, wOk, wLastOk, wBefore, rPc, rRet, rRead, rObs, rEarly>>

svVars == <<variant, q, unfinished_tasks, buffer_busy, filter_idx, date_stamp_on,
            bg_surface, uiPc, uiRet, nCaptures, putOutcome, accepted,
            wkPc, wkTask, nDeq, nDone, wkResult, callbackLog,
            process, svcCalls>>

uiVars == <<buffer_busy, filter_idx, date_stamp_on, bg_surface, uiPc, uiRet,
            nCaptures, putOutcome, accepted>>

wkVars == <<wkPc, wkTask, nDeq, nDone, wkResult>>

ctlVars == <<state, hitboxes, perf_counter, nCalls, callBudget, lastCall,
             trail, popRet, marked, nPopped>>

camVars == <<camera, ExposureValue, zoom_level, sim_scene, camCalls, camLast>>

procVars == <<running, preview_active, recording, frame_count, dropped_frames,
              capture_count, runPc, runW, capRet, missed, frames_ready,
              procCalls, procLast, shutdown_called, photo>>

rotVars == <<position, last_state, last_event_time, rotation_times,
             button_pressed, button_press_time, long_press_triggered,
             raw_counter, pin_ab, pin_button_level, encClock, pollPc, pollNow,
             raw_count, rotateLog, pressLog, nIsr, nPolls, nAdv, nPress,
             pollLast, counter_lock, isrTotal, polledTotal, press_duration,
             button_release_time, isrButtonPc>>

hapVars == <<hapConstructed, base_amplitude, amplitude_scale, hap_initialized,
             final_amplitude, requested, hapCalls>>

\* what each machine leaves alone
nonFbVars == <<svVars, ctlVars, camVars, procVars, rotVars, hapVars>>

nonSvVars == <<fbVars, ctlVars, camVars, procVars, rotVars, hapVars>>

nonCtlVars == <<fbVars, svVars, camVars, procVars, rotVars, hapVars>>

nonCamVars == <<fbVars, svVars, ctlVars, procVars, rotVars, hapVars>>

nonProcVars == <<fbVars, svVars, ctlVars, camVars, rotVars, hapVars>>

nonRotVars == <<fbVars, svVars, ctlVars, camVars, procVars, hapVars>>

nonHapVars == <<fbVars, svVars, ctlVars, camVars, procVars, rotVars>>

vars == <<fbVars, svVars, ctlVars, camVars, procVars, rotVars, hapVars>>

-----------------------------------------------------------------------------
(* Bounds *)

\* frame height and width the buffer is constructed with
Height == 1
Width == 2
\* number of write_frame calls in a run
MaxWrites == 3
\* number of capture requests in a run beyond the save queue's capacity
ExtraCaptures == 1
\* number of times the UI thread redraws the surface it captures from
MaxDraws == 1
\* number of handle and tick calls on the controller in a run
MaxCalls == 4
\* number of encoder events in a run of encoder events
MaxEncoderCalls == 6
\* number of handle, tick and mark_dirty calls in a run with a renderer
MaxDirtyCalls == 4
\* number of handle and tick calls in a run that animates the sidebar
MaxAnimCalls == 6
\* number of handle and tick calls in a run that shows toasts
MaxToastCalls == 5
\* number of handle and tick calls in a run that steps the mode indices
MaxIndexCalls == 6
\* calls made on the controller in a run that moves between scenes
MaxNavCalls == 5

\* number of setter calls and zoom inputs in a run of CamSpec
MaxCamCalls == 6
\* number of CameraProcess method calls and loop iterations in a run
MaxProcCalls == 4
\* encoder interrupts, polls, clock steps and button presses in a run
MaxIsr == 3
MaxPolls == 3
MaxClockSteps == 2
MaxPresses == 1
\* number of set_intensity and feedback calls in a run
MaxHapCalls == 3

-----------------------------------------------------------------------------
(* SharedFrameBuffer *)

\* self.channels = 3
channels == 3

\* the shape write_frame compares against: (self.height, self.width, self.channels)
BufferShape == <<Height, Width, channels>>

\* pixel positions of a slot: the (row, column) pairs of a height x width
\* array; the three channel bytes of a pixel are stored together
Pixels == (1..Height) \X (1..Width)

\* shapes a caller may hand to write_frame: the configured one, a transposed
\* one, a one-channel one and one with an extra row
Shapes == { BufferShape, <<Width, Height, channels>>, <<Height, Width, 1>>,
            <<Height + 1, Width, channels>> }

\* freshly created shared memory is zero-filled
ZeroFrame == [p \in Pixels |-> 0]

\* frame.shape != (self.height, self.width, self.channels)
ShapeMismatch_never(frame) == FALSE

ShapeMismatch(frame) == frame.shape # BufferShape

\* the slot write_frame copies into, given the index it read
InactiveIdx_same(current_idx) == current_idx

InactiveIdx(current_idx) == IF current_idx = 0 THEN 1 ELSE 0

\* read_frame's result for the index it read: a view, never a copy
ViewOf(current_idx) == IF current_idx = 0 THEN "buffer_a" ELSE "buffer_b"

\* the pixels a view shows now
Deref(view) == IF view = "buffer_a" THEN buffer_a ELSE buffer_b

FbInit ==
    /\ metadata = <<Width, Height, 0>>
    /\ buffer_a = ZeroFrame
    /\ buffer_b = ZeroFrame
    /\ wPc = "idle"
    /\ wFrame = [shape |-> BufferShape, data |-> 0]
    /\ wIdx = 0
    /\ wCopied = {}
    /\ wRet = "none"
    /\ wCalls = 0
    /\ wOk = 0
    /\ wLastOk = 0
    /\ wBefore = <<<<Width, Height, 0>>, ZeroFrame, ZeroFrame>>
    /\ rPc = "idle"
    /\ rRet = "none"
    /\ rRead = {}
    /\ rObs = {}
    /\ rEarly = FALSE

\* write_frame(frame), lines 172-176: the shape test and the read of the
\* active index.  The n-th call carries a frame whose pixels all hold n.
write_frame_enter(shape) ==
    /\ wPc = "idle"
    /\ wCalls < MaxWrites
    /\ wCalls' = wCalls + 1
    /\ wFrame' = [shape |-> shape, data |-> wCalls + 1]
    /\ wBefore' = <<metadata, buffer_a, buffer_b>>
    /\ IF ShapeMismatch(wFrame')
         THEN /\ wRet' = "False"
              /\ wPc' = "idle"
              /\ UNCHANGED <<wIdx, wCopied>>
         ELSE /\ wRet' = "pending"
              /\ wPc' = "copy"
              /\ wIdx' = metadata[3]
              /\ wCopied' = {}
    /\ UNCHANGED <<metadata, buffer_a, buffer_b, wOk, wLastOk, rPc, rRet, rRead, rObs, rEarly>>
    /\ UNCHANGED nonFbVars

\* np.copyto(inactive slot, frame), lines 179-184: one pixel at a time, in
\* no particular order
write_frame_copy(p) ==
    /\ wPc = "copy"
    /\ p \in Pixels \ wCopied
    /\ IF InactiveIdx(wIdx) = 1
         THEN /\ buffer_b' = [buffer_b EXCEPT ![p] = wFrame.data]
              /\ UNCHANGED buffer_a
         ELSE /\ buffer_a' = [buffer_a EXCEPT ![p] = wFrame.data]
              /\ UNCHANGED buffer_b
    /\ wCopied' = wCopied \cup {p}
    /\ UNCHANGED <<metadata, wPc, wFrame, wIdx, wRet, wCalls, wOk, wLastOk, wBefore,
                   rPc, rRet, rRead, rObs, rEarly>>
    /\ UNCHANGED nonFbVars

\* self.metadata[2] = new_idx; return True, lines 187-189
write_frame_swap ==
    /\ wPc = "copy"
    /\ wCopied = Pixels
    /\ metadata' = [metadata EXCEPT ![3] = InactiveIdx(wIdx)]
    /\ wRet' = "True"
    /\ wOk' = wOk + 1
    /\ wLastOk' = wFrame.data
    /\ wPc' = "idle"
    /\ UNCHANGED <<buffer_a, buffer_b, wFrame, wIdx, wCopied, wCalls, wBefore,
                   rPc, rRet, rRead, rObs, rEarly>>
    /\ UNCHANGED nonFbVars

\* read_frame(), lines 198-203: one read of the index, then the view of
\* that slot is returned
read_frame ==
    /\ rPc = "idle"
    /\ rRet' = ViewOf(metadata[3])
    /\ rEarly' = (wOk = 0)
    /\ rRead' = {}
    /\ rObs' = {}
    /\ rPc' = "using"
    /\ UNCHANGED <<metadata, buffer_a, buffer_b, wPc, wFrame, wIdx, wCopied,
                   wRet, wCalls, wOk, wLastOk, wBefore>>
    /\ UNCHANGED nonFbVars

\* the caller reads one pixel through the returned view (ipc.py 463-465:
\* frame.shape, frame.mean())
reader_read_pixel(p) ==
    /\ rPc = "using"
    /\ p \in Pixels \ rRead
    /\ rRead' = rRead \cup {p}
    /\ rObs' = rObs \cup {Deref(rRet)[p]}
    /\ UNCHANGED <<metadata, buffer_a, buffer_b, wPc, wFrame, wIdx, wCopied,
                   wRet, wCalls, wOk, wLastOk, wBefore, rPc, rRet, rEarly>>
    /\ UNCHANGED nonFbVars

\* the caller is done with the view and may call read_frame again
reader_release ==
    /\ rPc = "using"
    /\ rRead = Pixels
    /\ rPc' = "idle"
    /\ UNCHANGED <<metadata, buffer_a, buffer_b, wPc, wFrame, wIdx, wCopied,
                   wRet, wCalls, wOk, wLastOk, wBefore, rRet, rRead, rObs, rEarly>>
    /\ UNCHANGED nonFbVars

FbNext ==
    \/ \E shape \in Shapes : write_frame_enter(shape)
    \/ \E p \in Pixels : write_frame_copy(p)
    \/ write_frame_swap
    \/ read_frame
    \/ \E p \in Pixels : reader_read_pixel(p)
    \/ reader_release

-----------------------------------------------------------------------------
(* AsyncPhotoSaver and CameraService *)

\* queue.Queue(maxsize=8) in main_pc_sim.py, queue.Queue(maxsize=10) in
\* main_pc_sim_final.py
maxsize_sim == 8
maxsize_final == 10

maxsize == IF variant = "sim" THEN maxsize_sim ELSE maxsize_final

\* capture requests in a run: enough to fill the queue and overrun it
MaxCaptures == maxsize + ExtraCaptures

\* FILTER_PRESETS; the model keeps the unfiltered preset and one filter
FILTER_PRESETS == <<"none", "vintage">>

\* state.current_filter()
current_filter == FILTER_PRESETS[filter_idx + 1]

\* surface.copy(): a new surface that owns its pixels
SurfaceCopy_alias(pixels) == [ref |-> "live", pixels |-> pixels]

SurfaceCopy(pixels) == [ref |-> "own", pixels |-> pixels]

\* the pixels a task's surface shows when the worker reads it: its own, or
\* those of the UI thread's surface if it only refers to that one
SurfacePixels(surface) ==
    IF surface.ref = "live" THEN bg_surface ELSE surface.pixels

\* queue.Queue.put_nowait raises queue.Full once qsize() has reached maxsize
QueueFull_late(queue) == Len(queue) > maxsize

QueueFull(queue) == Len(queue) >= maxsize

\* queue.Queue.get takes the oldest entry
GetIndex_newest(queue) == Len(queue)

GetIndex(queue) == 1

\* the queue after get has taken entry i
AfterGet_drop2(queue, i) ==
    [k \in 1..(IF Len(queue) >= 2 THEN Len(queue) - 2 ELSE 0) |-> queue[k + 2]]

AfterGet(queue, i) ==
    [k \in 1..(Len(queue) - 1) |-> IF k < i THEN queue[k] ELSE queue[k + 1]]

\* the worker's "except Exception" clause takes every error _save raises
ExceptionCaught_not == FALSE

ExceptionCaught == TRUE

\* a task that tells the worker to exit: no path, no frame
IsPoison(task) == task.surface.ref = "none"

NoTask == [id |-> 0, surface |-> SurfaceCopy(0), filter |-> "none",
           stamp |-> FALSE, req |-> 0]

NoImage == [filter |-> "none", stamp |-> FALSE, pixels |-> 0]

NoResult == [status |-> "none", image |-> NoImage]

\* what _save / _process_save writes for a task: the task's filter and date
\* stamp applied to the pixels its surface shows
SavedImage(task) ==
    [filter |-> task.filter, stamp |-> task.stamp,
     pixels |-> SurfacePixels(task.surface)]

SvInit ==
    /\ variant \in {"sim", "final"}
    /\ q = <<>>
    /\ unfinished_tasks = 0
    /\ buffer_busy = FALSE
    /\ filter_idx = 0
    /\ date_stamp_on = TRUE
    /\ bg_surface = 0
    /\ uiPc = "idle"
    /\ uiRet = "none"
    /\ nCaptures = 0
    /\ putOutcome = "none"
    /\ accepted = <<>>
    /\ wkPc = "get"
    /\ wkTask = NoTask
    /\ nDeq = 0
    /\ nDone = 0
    /\ wkResult = NoResult
    /\ callbackLog = {}
    /\ process = "None"
    /\ svcCalls = {}

\* the saver's variables while only the frame buffer runs
SvParked == SvInit /\ variant = "sim"

\* the UI thread draws into the surface it captures from (the surface is the
\* caller's, passed by reference to enqueue / save_photo_async)
ui_draw ==
    /\ uiPc = "idle"
    /\ bg_surface < MaxDraws
    /\ bg_surface' = bg_surface + 1
    /\ UNCHANGED <<variant, q, unfinished_tasks, buffer_busy, filter_idx,
                   date_stamp_on, uiPc, uiRet, nCaptures, putOutcome, accepted,
                    callbackLog, process, svcCalls>>
    /\ UNCHANGED wkVars
    /\ UNCHANGED nonSvVars

\* the dict enqueue / save_photo_async builds for capture request n; req
\* remembers the pixels at the time of the request
NewTask(n) ==
    [id |-> n, surface |-> SurfaceCopy(bg_surface), filter |-> current_filter,
     stamp |-> date_stamp_on, req |-> bg_surface]

\* self.q.put_nowait(task) with "except queue.Full: pass" around it; the
\* method returns None on both paths and invokes no callback
PutNowait(task) ==
    /\ IF QueueFull(q)
         THEN /\ putOutcome' = "Full"
              /\ UNCHANGED <<q, unfinished_tasks, accepted>>
         ELSE /\ putOutcome' = "ok"
              /\ q' = Append(q, task)
              /\ unfinished_tasks' = unfinished_tasks + 1
              /\ accepted' = Append(accepted, task.id)
    /\ uiRet' = "None"

\* main_pc_sim.py enqueue, line 360: self.state.buffer_busy = True
sim_enqueue_begin ==
    /\ variant = "sim"
    /\ uiPc = "idle"
    /\ nCaptures < MaxCaptures
    /\ nCaptures' = nCaptures + 1
    /\ buffer_busy' = TRUE
    /\ uiPc' = "put"
    /\ UNCHANGED <<variant, q, unfinished_tasks, filter_idx, date_stamp_on,
                   bg_surface, uiRet, putOutcome, accepted,  callbackLog,
                   process, svcCalls>>
    /\ UNCHANGED wkVars
    /\ UNCHANGED nonSvVars

\* main_pc_sim.py enqueue, lines 361-368
sim_enqueue_put ==
    /\ variant = "sim"
    /\ uiPc = "put"
    /\ PutNowait(NewTask(nCaptures))
    /\ uiPc' = "idle"
    /\ UNCHANGED <<variant, buffer_busy, filter_idx, date_stamp_on, bg_surface,
                   nCaptures, callbackLog, process, svcCalls>>
    /\ UNCHANGED wkVars
    /\ UNCHANGED nonSvVars

\* main_pc_sim_final.py save_photo_async, lines 352-361
final_save_photo_async ==
    /\ variant = "final"
    /\ uiPc = "idle"
    /\ nCaptures < MaxCaptures
    /\ nCaptures' = nCaptures + 1
    /\ PutNowait(NewTask(nCaptures'))
    /\ UNCHANGED <<variant, buffer_busy, filter_idx, date_stamp_on, bg_surface,
                   uiPc, callbackLog, process, svcCalls>>
    /\ UNCHANGED wkVars
    /\ UNCHANGED nonSvVars

\* task = self.q.get(): blocks while the queue is empty
QueueGet ==
    /\ q # <<>>
    /\ wkTask' = q[GetIndex(q)]
    /\ q' = AfterGet(q, GetIndex(q))
    /\ nDeq' = nDeq + 1

\* main_pc_sim.py _loop, line 372
sim_loop_get ==
    /\ variant = "sim"
    /\ wkPc = "get"
    /\ QueueGet
    /\ wkPc' = "save"
    /\ UNCHANGED <<variant, unfinished_tasks, nDone, wkResult,
                   callbackLog, process, svcCalls>>
    /\ UNCHANGED uiVars
    /\ UNCHANGED nonSvVars

\* the save attempt of the held task: it writes the image, or raises
SaveAttempt(raises) ==
    /\ nDone' = nDone + 1
    /\ IF raises
         THEN wkResult' = [status |-> "raised", image |-> NoImage]
         ELSE wkResult' = [status |-> "saved", image |-> SavedImage(wkTask)]

\* main_pc_sim.py _loop, lines 373-376: self._save(task), and the handler
\* that prints the error
sim_loop_save(raises) ==
    /\ variant = "sim"
    /\ wkPc = "save"
    /\ SaveAttempt(raises)
    /\ wkPc' = IF raises /\ ~ExceptionCaught THEN "dead" ELSE "finally"
    /\ UNCHANGED <<variant, q, unfinished_tasks,  wkTask, nDeq,
                   callbackLog, process, svcCalls>>
    /\ UNCHANGED uiVars
    /\ UNCHANGED nonSvVars

\* main_pc_sim.py _loop, lines 377-379: self.q.task_done() and the test
\* of self.q.empty()
sim_loop_finally ==
    /\ variant = "sim"
    /\ wkPc = "finally"
    /\ unfinished_tasks' = unfinished_tasks - 1
    /\ wkPc' = IF q = <<>> THEN "clear_busy" ELSE "get"
    /\ UNCHANGED <<variant, q,  wkTask, nDeq, nDone, wkResult, callbackLog, process, svcCalls>>
    /\ UNCHANGED uiVars
    /\ UNCHANGED nonSvVars

\* main_pc_sim.py _loop, line 380: self.state.buffer_busy = False
sim_loop_clear_busy ==
    /\ variant = "sim"
    /\ wkPc = "clear_busy"
    /\ buffer_busy' = FALSE
    /\ wkPc' = "get"
    /\ UNCHANGED <<variant, q, unfinished_tasks, filter_idx, date_stamp_on,
                   bg_surface, uiPc, uiRet, nCaptures, putOutcome, accepted,
                    wkTask, nDeq, nDone, wkResult,
                   callbackLog, process, svcCalls>>
    /\ UNCHANGED nonSvVars

\* main_pc_sim_final.py _worker_loop, line 368
final_worker_loop_get ==
    /\ variant = "final"
    /\ wkPc = "get"
    /\ QueueGet
    /\ wkPc' = "save"
    /\ UNCHANGED <<variant, unfinished_tasks, nDone, wkResult,
                   callbackLog, process, svcCalls>>
    /\ UNCHANGED uiVars
    /\ UNCHANGED nonSvVars

\* main_pc_sim_final.py _worker_loop, lines 371-376: _process_save(task)
\* and task_done(), or the handler that prints the error (task_done is
\* skipped on that path)
final_worker_loop_save(raises) ==
    /\ variant = "final"
    /\ wkPc = "save"
    /\ SaveAttempt(raises)
    /\ unfinished_tasks' = IF raises THEN unfinished_tasks ELSE unfinished_tasks - 1
    /\ wkPc' = IF raises /\ ~ExceptionCaught THEN "dead" ELSE "get"
    /\ UNCHANGED <<variant, q,  wkTask, nDeq, callbackLog, process,
                   svcCalls>>
    /\ UNCHANGED uiVars
    /\ UNCHANGED nonSvVars

\* camera_service.py CameraService.start, lines 412-416: pass
CameraService_start ==
    /\ svcCalls' = svcCalls \cup {"start"}
    /\ UNCHANGED <<variant, q, unfinished_tasks,  callbackLog, process>>
    /\ UNCHANGED uiVars
    /\ UNCHANGED wkVars
    /\ UNCHANGED nonSvVars

\* camera_service.py CameraService.stop, lines 418-422: terminates and joins
\* self.process (for at most 2.0 s) if there is one alive; nothing else
CameraService_stop ==
    /\ uiPc = "idle"
    /\ svcCalls' = svcCalls \cup {"stop"}
    /\ process' = IF process = "alive" THEN "terminated" ELSE process
    /\ UNCHANGED <<variant, q, unfinished_tasks,  callbackLog>>
    /\ UNCHANGED uiVars
    /\ UNCHANGED wkVars
    /\ UNCHANGED nonSvVars

\* camera_service.py CameraService.capture_photo(filepath, callback),
\* lines 435-444: pass
CameraService_capture_photo ==
    /\ svcCalls' = svcCalls \cup {"capture_photo"}
    /\ UNCHANGED <<variant, q, unfinished_tasks,  callbackLog, process>>
    /\ UNCHANGED uiVars
    /\ UNCHANGED wkVars
    /\ UNCHANGED nonSvVars

UiNext ==
    \/ ui_draw
    \/ sim_enqueue_begin
    \/ sim_enqueue_put
    \/ final_save_photo_async
    \/ CameraService_start
    \/ CameraService_stop
    \/ CameraService_capture_photo

WorkerNext ==
    \/ sim_loop_get
    \/ \E raises \in BOOLEAN : sim_loop_save(raises)
    \/ sim_loop_finally
    \/ sim_loop_clear_busy
    \/ final_worker_loop_get
    \/ \E raises \in BOOLEAN : final_worker_loop_save(raises)

-----------------------------------------------------------------------------
(* AppController (core/app_controller.py) *)

\* Numbers: times are in units of 10 microseconds, sidebar_anim in
\* ten-thousandths, gallery_swipe_x in ten-thousandths of a pixel,
\* gallery_velocity in hundredths of a pixel per second, haptics_strength is
\* the exact fraction <<num, den>>.

\* the canvas size the controller is constructed with
ScreenW == 800
ScreenH == 480

\* core/ui_renderer.py layout constants
SP12 == 12
SP16 == 16
SIDEBAR_W == 228
HANDLE_W == 16
HIT_MIN == 48

FILTERS == <<"none", "vintage", "bw", "vivid", "portrait">>
GRID_MODES == <<"off", "thirds", "center">>
LEVEL_MODES == <<"off", "line">>

\* I18N[lang].get(key, key) for the keys the controller looks up
I18N(lang, key) ==
    IF key = "capture" THEN (IF lang = "en" THEN "Capture" ELSE "Auslösen")
    ELSE key

Abs(n) == IF n >= 0 THEN n ELSE -n

Min(a, b) == IF a <= b THEN a ELSE b

Max(a, b) == IF a >= b THEN a ELSE b

\* a / b rounded toward zero, as int() and the scaled float products are
TruncDiv(a, b) == IF a >= 0 THEN a \div b ELSE -((-a) \div b)

\* UIRenderer.build_hitboxes(state): the dict, in insertion order
build_hitboxes(sidebar_anim) ==
    LET sx == -((SIDEBAR_W * (10000 - sidebar_anim)) \div 10000)
    IN << [key |-> "back",         rect |-> <<SP12, SP12, 64, 40>>],
          [key |-> "handle",       rect |-> <<0, ScreenH \div 2 - 40, HANDLE_W, 80>>],
          [key |-> "capture",      rect |-> <<ScreenW \div 2 - 38, ScreenH - 86, 76, 76>>],
          [key |-> "thumb",        rect |-> <<SP16, ScreenH - 82, 62, 62>>],
          [key |-> "filter_wheel", rect |-> <<sx + SP16, 136, SIDEBAR_W - 32, HIT_MIN>>],
          [key |-> "grid",         rect |-> <<sx + SP16, 206, SIDEBAR_W - 32, HIT_MIN>>],
          [key |-> "level",        rect |-> <<sx + SP16, 276, SIDEBAR_W - 32, HIT_MIN>>],
          [key |-> "haptics",      rect |-> <<sx + SP16, 346, SIDEBAR_W - 32, HIT_MIN>>],
          [key |-> "lang",         rect |-> <<sx + SP16, 416, SIDEBAR_W - 32, HIT_MIN>>],
          [key |-> "gallery_prev", rect |-> <<SP16, ScreenH \div 2 - 40, 54, 80>>],
          [key |-> "gallery_next", rect |-> <<ScreenW - 70, ScreenH \div 2 - 40, 54, 80>> ] >>

\* the position of a registered key in the dict
HitboxOf(key) ==
    CHOOSE i \in 1..Len(hitboxes) : hitboxes[i].key = key

\* "haptics" in self.hitboxes
HasHitbox(key) == \E i \in 1..Len(hitboxes) : hitboxes[i].key = key

\* rx <= x <= rx + rw and ry <= y <= ry + rh
InRect(p, r) ==
    /\ r[1] <= p[1] /\ p[1] <= r[1] + r[3]
    /\ r[2] <= p[2] /\ p[2] <= r[2] + r[4]

\* _hit(p): the first registered key whose rectangle holds p, else None
Hit_last(p) ==
    LET hits == {i \in 1..Len(hitboxes) : InRect(p, hitboxes[i].rect)}
    IN IF hits = {} THEN "None"
       ELSE hitboxes[CHOOSE i \in hits : \A j \in hits : i >= j].key

Hit(p) ==
    LET hits == {i \in 1..Len(hitboxes) : InRect(p, hitboxes[i].rect)}
    IN IF hits = {} THEN "None"
       ELSE hitboxes[CHOOSE i \in hits : \A j \in hits : i <= j].key

\* the point in the middle of a rectangle
Centre(r) == <<r[1] + r[3] \div 2, r[2] + r[4] \div 2>>

\* a point of the viewfinder no control covers
NoHitPoint == <<ScreenW \div 2, 100>>

\* where touches land: the middle of each control of the shown-sidebar
\* layout, and a point on no control
TouchPoints ==
    { Centre(build_hitboxes(10000)[i].rect) : i \in 1..11 } \cup { NoHitPoint }

\* the points and horizontal deltas of TOUCH_MOVE events: a drag to 75% of
\* the haptics slider, one to the left of it and one to the right of it
TouchMoves ==
    { [pos |-> <<SP16 + (3 * (SIDEBAR_W - 32)) \div 4, 370>>, delta |-> 24],
      [pos |-> <<0, 370>>, delta |-> -25],
      [pos |-> <<SP16 + SIDEBAR_W, 370>>, delta |-> 1] }

\* the deltas of ENCODER_DETENT events
DetentDeltas == {-1, 1}

\* the dt of tick calls: 50 us and 0.6 s
Dts == {5, 60000}

\* rectangles handed to mark_dirty by a caller other than the controller
CallerRects == { <<0, 0, HIT_MIN, HIT_MIN>> }

InputEvent(type, pos, delta) == [type |-> type, pos |-> pos, delta |-> delta]

\* the events the adapters produce
Events ==
    { InputEvent(t, <<0, 0>>, 0) :
          t \in {"ENCODER_PRESS", "SHUTTER_PRESS", "SHUTDOWN", "FLASH_TOGGLE",
                 "TOGGLE_GRID", "TOGGLE_LEVEL", "TOGGLE_LANG", "TOGGLE_DEBUG",
                 "BACK"} }
    \cup { InputEvent("ENCODER_DETENT", <<0, 0>>, d) : d \in DetentDeltas }
    \cup { InputEvent("TOUCH_DOWN", p, 0) : p \in TouchPoints }
    \cup { InputEvent("TOUCH_MOVE", m.pos, m.delta) : m \in TouchMoves }
    \cup { InputEvent("TOUCH_UP", p, 0) : p \in {NoHitPoint} }

\* AppState(): the dataclass defaults
AppState ==
    [ lang |-> "en", scene |-> "CAMERA", nav_stack |-> <<"CAMERA">>,
      filter_idx |-> 0, grid_mode_idx |-> 0, level_mode_idx |-> 0,
      flash_on |-> FALSE, shutdown_requested |-> FALSE,
      sidebar_open |-> FALSE, sidebar_anim |-> 0,
      haptics_strength |-> <<3, 5>>,
      touch_down |-> FALSE, touch_pos |-> <<0, 0>>, touch_target |-> "None",
      pressed_until |-> 0, toast |-> "", toast_until |-> 0, freeze_until |-> 0,
      last_input_latency_ms |-> 0, debug_overlay |-> FALSE,
      preview_mode |-> "DEMO_IMAGE", iso |-> 400, shutter |-> "1/250",
      ev |-> 0, battery_pct |-> 94,
      gallery_index |-> 0, gallery_swipe_x |-> 0, gallery_velocity |-> 0,
      dirty_rects |-> <<>> ]

\* mark_dirty(rect)
MarkDirty(s, rect) == [s EXCEPT !.dirty_rects = Append(@, rect)]

\* mark_all_dirty()
MarkAllDirty(s) == MarkDirty(s, <<0, 0, ScreenW, ScreenH>>)

\* what pop_dirty leaves in dirty_rects
AfterPop_keep(rects) == rects

AfterPop(rects) == <<>>

\* push_scene(scene)
PushScene_always(s, scene) ==
    [s EXCEPT !.scene = scene, !.nav_stack = Append(@, scene)]

PushScene(s, scene) ==
    IF s.scene # scene
      THEN [s EXCEPT !.scene = scene, !.nav_stack = Append(@, scene)]
      ELSE s

\* back()
Back_close_only(s) == [s EXCEPT !.sidebar_open = FALSE]

Back(s) ==
    IF s.sidebar_open
      THEN [s EXCEPT !.sidebar_open = FALSE]
    ELSE IF Len(s.nav_stack) > 1
      THEN LET stack == SubSeq(s.nav_stack, 1, Len(s.nav_stack) - 1)
           IN [s EXCEPT !.nav_stack = stack, !.scene = stack[Len(stack)]]
    ELSE [s EXCEPT !.shutdown_requested = TRUE]

\* (s.filter_idx + (1 if event.delta >= 0 else -1)) % len(FILTERS)
DetentStep_nowrap(idx, delta) ==
    Max(0, Min(Len(FILTERS) - 1, idx + (IF delta >= 0 THEN 1 ELSE -1)))

DetentStep(idx, delta) ==
    (idx + (IF delta >= 0 THEN 1 ELSE -1)) % Len(FILTERS)

\* (idx + 1) % len(modes): the next entry of a cycle of n
CycleNext_nowrap(idx, n) == idx + 1

CycleNext(idx, n) == (idx + 1) % n

\* max(0, s.gallery_index - 1): the index of the photo before this one
GalleryPrev_unclamped(idx) == idx - 1

GalleryPrev(idx) == Max(0, idx - 1)

\* _on_press(key) at clock reading now
OnPress(s, key, now) ==
    IF key = "None" THEN s
    ELSE
      LET s1 == [s EXCEPT !.pressed_until = now + 11000]
          s2 == CASE key = "back" -> Back(s1)
                  [] key = "handle" -> [s1 EXCEPT !.sidebar_open = ~@]
                  [] key = "capture" ->
                        [s1 EXCEPT !.toast = I18N(s1.lang, "capture"),
                                   !.toast_until = now + 60000,
                                   !.freeze_until = now + 60000]
                  [] key = "thumb" -> PushScene(s1, "GALLERY")
                  [] key = "filter_wheel" ->
                        [s1 EXCEPT !.filter_idx = CycleNext(@, Len(FILTERS))]
                  [] key = "grid" ->
                        [s1 EXCEPT !.grid_mode_idx = CycleNext(@, Len(GRID_MODES))]
                  [] key = "level" ->
                        [s1 EXCEPT !.level_mode_idx = CycleNext(@, Len(LEVEL_MODES))]
                  [] key = "lang" ->
                        [s1 EXCEPT !.lang = IF @ = "en" THEN "de" ELSE "en"]
                  [] key = "gallery_prev" ->
                        [s1 EXCEPT !.gallery_index = GalleryPrev(@)]
                  [] key = "gallery_next" ->
                        [s1 EXCEPT !.gallery_index = @ + 1]
                  [] OTHER -> s1
      IN MarkAllDirty(s2)

\* the slider value for horizontal position px on the hitbox (x0, _, w, _)
SliderValue_unclamped(px, x0, w) == <<px - x0, Max(1, w)>>

SliderValue(px, x0, w) == <<Max(x0, Min(x0 + w, px)) - x0, Max(1, w)>>

\* _update_sidebar_drag(pos)
UpdateSidebarDrag(s, pos) ==
    IF s.touch_target = "haptics" /\ HasHitbox("haptics")
      THEN LET r == hitboxes[HitboxOf("haptics")].rect
           IN MarkAllDirty([s EXCEPT !.haptics_strength =
                                          SliderValue(pos[1], r[1], r[3])])
      ELSE s

\* the SHUTDOWN branch of handle
OnShutdown_clears(s) == [s EXCEPT !.shutdown_requested = ~@]

OnShutdown(s) == [s EXCEPT !.shutdown_requested = TRUE]

\* s.gallery_swipe_x < 0 in the TOUCH_UP branch: the swipe that moves on
SwipeSelectsNext(swipe_x) == swipe_x < 0

\* the TOUCH_UP branch of handle
OnTouchUp(s) ==
    LET s1 == [s EXCEPT !.touch_down = FALSE]
        s2 == IF s1.scene = "GALLERY" /\ Abs(s1.gallery_swipe_x) > 24 * 10000
                THEN MarkAllDirty(
                       [s1 EXCEPT !.gallery_index =
                                      IF SwipeSelectsNext(s1.gallery_swipe_x)
                                        THEN @ + 1 ELSE GalleryPrev(@),
                                  !.gallery_swipe_x = 0])
                ELSE s1
    IN [s2 EXCEPT !.touch_target = "None"]

\* the TOUCH_MOVE branch of handle
OnTouchMove(s, event) ==
    LET s1 == [s EXCEPT !.touch_pos = event.pos]
        s2 == UpdateSidebarDrag(s1, event.pos)
    IN IF s2.scene = "GALLERY"
         THEN MarkAllDirty([s2 EXCEPT !.gallery_velocity = event.delta * 700,
                                      !.gallery_swipe_x = @ + event.delta * 10000])
         ELSE s2

\* the TOUCH_DOWN branch of handle
OnTouchDown(s, event, now) ==
    LET s1 == [s EXCEPT !.touch_down = TRUE, !.touch_pos = event.pos,
                        !.touch_target = Hit(event.pos)]
    IN OnPress(s1, s1.touch_target, now)

\* AppState after handle(event) at clock reading now; the call itself takes
\* no measurable time, so the recorded latency is 0.0
AfterHandle(s, event, now) ==
    LET t == event.type
        r == CASE t = "ENCODER_DETENT" ->
                    MarkAllDirty([s EXCEPT !.filter_idx = DetentStep(@, event.delta)])
               [] t = "ENCODER_PRESS" ->
                    MarkAllDirty([s EXCEPT !.sidebar_open = ~@])
               [] t = "TOGGLE_DEBUG" ->
                    MarkAllDirty([s EXCEPT !.debug_overlay = ~@])
               [] t = "TOGGLE_GRID" ->
                    MarkAllDirty([s EXCEPT !.grid_mode_idx =
                                               CycleNext(@, Len(GRID_MODES))])
               [] t = "TOGGLE_LEVEL" ->
                    MarkAllDirty([s EXCEPT !.level_mode_idx =
                                               CycleNext(@, Len(LEVEL_MODES))])
               [] t = "TOGGLE_LANG" ->
                    MarkAllDirty([s EXCEPT !.lang = IF @ = "en" THEN "de" ELSE "en"])
               [] t = "FLASH_TOGGLE" ->
                    MarkAllDirty([s EXCEPT !.flash_on = ~@])
               [] t = "SHUTTER_PRESS" ->
                    MarkAllDirty([s EXCEPT !.toast = I18N(s.lang, "saved"),
                                           !.toast_until = now + 60000,
                                           !.freeze_until = now + 60000])
               [] t = "SHUTDOWN" -> OnShutdown(s)
               [] t = "BACK" -> MarkAllDirty(Back(s))
               [] t = "TOUCH_DOWN" -> OnTouchDown(s, event, now)
               [] t = "TOUCH_MOVE" -> OnTouchMove(s, event)
               [] t = "TOUCH_UP" -> OnTouchUp(s)
               [] OTHER -> s
    IN [r EXCEPT !.last_input_latency_ms = 0]

\* time.perf_counter() > s.toast_until
ToastExpired_always(now, toast_until) == TRUE

ToastExpired(now, toast_until) == now > toast_until

\* min(1.0, dt * 8.0), in ten-thousandths
AnimFactor_unclamped(dt) == (dt * 8) \div 10

AnimFactor(dt) == Min(10000, (dt * 8) \div 10)

\* AppState after tick(dt), the clock reading now
AfterTick(s, dt, now) ==
    LET target == IF s.sidebar_open THEN 10000 ELSE 0
        before == s.sidebar_anim
        factor == AnimFactor(dt)
        anim   == before + TruncDiv((target - before) * factor, 10000)
        s1 == [s EXCEPT !.sidebar_anim = anim]
        s2 == IF Abs(anim - before) > 5 THEN MarkAllDirty(s1) ELSE s1
        s3 == IF s2.scene = "GALLERY" /\ Abs(s2.gallery_velocity) > 1
                THEN MarkAllDirty(
                       [s2 EXCEPT !.gallery_swipe_x =
                                      @ + TruncDiv(s2.gallery_velocity * dt, 1000),
                                  !.gallery_velocity = TruncDiv(@ * 88, 100)])
                ELSE s2
    IN IF s3.toast # "" /\ ToastExpired(now, s3.toast_until)
         THEN MarkAllDirty([s3 EXCEPT !.toast = ""])
         ELSE s3

\* the rectangles a call appended to dirty_rects
NewRects(s, s2) ==
    SubSeq(s2.dirty_rects, Len(s.dirty_rects) + 1, Len(s2.dirty_rects))

NoEvent == InputEvent("none", <<0, 0>>, 0)

\* the filter indices seen over the ENCODER_DETENT(delta >= 0) events handled
\* in a row up to now, the index before the first of them in front
TrailAfter(event, idx2) ==
    IF event.type = "ENCODER_DETENT" /\ event.delta >= 0
      THEN Append(trail, idx2)
      ELSE <<idx2>>

\* AppController(width, height): a fresh AppState and no hitboxes; budget is
\* the number of calls the run will make
CtlInitWith(budget) ==
    /\ state = AppState
    /\ hitboxes = <<>>
    /\ perf_counter = 0
    /\ nCalls = 0
    /\ callBudget = budget
    /\ lastCall = [op |-> "none", event |-> NoEvent, dt |-> 0]
    /\ trail = <<0>>
    /\ popRet = <<>>
    /\ marked = <<>>
    /\ nPopped = 0

CtlInit == CtlInitWith(MaxCalls)

\* set_hitboxes(boxes) with the dict the renderer built from the state it
\* has just drawn (UIRenderer.render_ui)
set_hitboxes ==
    /\ hitboxes' = build_hitboxes(state.sidebar_anim)
    /\ UNCHANGED <<state, perf_counter, nCalls, callBudget, lastCall, trail,
                   popRet, marked, nPopped>>
    /\ UNCHANGED nonCtlVars

\* mark_dirty(rect), called from outside the controller
mark_dirty(rect) ==
    /\ nCalls < callBudget
    /\ nCalls' = nCalls + 1
    /\ state' = MarkDirty(state, rect)
    /\ marked' = marked \o NewRects(state, state')
    /\ lastCall' = [op |-> "mark_dirty", event |-> NoEvent, dt |-> 0]
    /\ trail' = <<state.filter_idx>>
    /\ UNCHANGED <<hitboxes, perf_counter, callBudget, popRet, nPopped>>
    /\ UNCHANGED nonCtlVars

\* pop_dirty(): returns a copy of dirty_rects and clears the list
pop_dirty ==
    /\ popRet' = state.dirty_rects
    /\ state' = [state EXCEPT !.dirty_rects = AfterPop(@)]
    /\ nPopped' = nPopped + Len(popRet')
    /\ lastCall' = [op |-> "pop_dirty", event |-> NoEvent, dt |-> 0]
    /\ trail' = <<state.filter_idx>>
    /\ UNCHANGED <<hitboxes, perf_counter, nCalls, callBudget, marked>>
    /\ UNCHANGED nonCtlVars

\* handle(event); the events of a frame are handled at the frame's clock
\* reading
handle(event) ==
    /\ nCalls < callBudget
    /\ nCalls' = nCalls + 1
    /\ state' = AfterHandle(state, event, perf_counter)
    /\ marked' = marked \o NewRects(state, state')
    /\ lastCall' = [op |-> "handle", event |-> event, dt |-> 0]
    /\ trail' = TrailAfter(event, state'.filter_idx)
    /\ UNCHANGED <<hitboxes, perf_counter, callBudget, popRet, nPopped>>
    /\ UNCHANGED nonCtlVars

\* tick(dt), called once per frame, dt after the previous frame
tick(dt) ==
    /\ nCalls < callBudget
    /\ nCalls' = nCalls + 1
    /\ perf_counter' = perf_counter + dt
    /\ state' = AfterTick(state, dt, perf_counter')
    /\ marked' = marked \o NewRects(state, state')
    /\ lastCall' = [op |-> "tick", event |-> NoEvent, dt |-> dt]
    /\ trail' = <<state.filter_idx>>
    /\ UNCHANGED <<hitboxes, callBudget, popRet, nPopped>>
    /\ UNCHANGED nonCtlVars

\* push_scene(scene), called on the controller directly
push_scene(scene) ==
    /\ nCalls < callBudget
    /\ nCalls' = nCalls + 1
    /\ state' = PushScene(state, scene)
    /\ marked' = marked \o NewRects(state, state')
    /\ lastCall' = [op |-> "push_scene", event |-> NoEvent, dt |-> 0]
    /\ trail' = <<state.filter_idx>>
    /\ UNCHANGED <<hitboxes, perf_counter, callBudget, popRet, nPopped>>
    /\ UNCHANGED nonCtlVars

\* back(), called on the controller directly
back ==
    /\ nCalls < callBudget
    /\ nCalls' = nCalls + 1
    /\ state' = Back(state)
    /\ marked' = marked \o NewRects(state, state')
    /\ lastCall' = [op |-> "back", event |-> NoEvent, dt |-> 0]
    /\ trail' = <<state.filter_idx>>
    /\ UNCHANGED <<hitboxes, perf_counter, callBudget, popRet, nPopped>>
    /\ UNCHANGED nonCtlVars

\* the frame loop: events, the tick, and the renderer registering hitboxes
CtlNext ==
    \/ set_hitboxes
    \/ \E event \in Events : handle(event)
    \/ \E dt \in Dts : tick(dt)

\* the events that step filter_idx, grid_mode_idx and level_mode_idx: detents
\* of any size and sign, the toggles, touches on the three sidebar rows, and
\* the encoder press that brings the rows on screen
IndexEvents ==
    { InputEvent("ENCODER_DETENT", <<0, 0>>, d) : d \in {-7, -1, 0, 1, 9} }
    \cup { InputEvent(t, <<0, 0>>, 0) :
              t \in {"TOGGLE_GRID", "TOGGLE_LEVEL", "ENCODER_PRESS"} }
    \cup { InputEvent("TOUCH_DOWN", Centre(build_hitboxes(10000)[i].rect), 0) :
              i \in 5..7 }

IndexNext ==
    \/ set_hitboxes
    \/ \E event \in IndexEvents : handle(event)
    \/ tick(60000)

\* the events that move between scenes and through the gallery: BACK,
\* touches on the back, thumbnail, gallery_prev and gallery_next controls of
\* the closed-sidebar layout, swipes of 25 px to either side, and the release
NavEvents ==
    { InputEvent("BACK", <<0, 0>>, 0), InputEvent("TOUCH_UP", NoHitPoint, 0) }
    \cup { InputEvent("TOUCH_DOWN", Centre(build_hitboxes(0)[i].rect), 0) :
              i \in {1, 4, 10, 11} }
    \cup { InputEvent("TOUCH_MOVE", NoHitPoint, d) : d \in {-25, 25} }

\* the scenes of the Scene enum
Scenes == {"CAMERA", "GALLERY"}

NavNext ==
    \/ set_hitboxes
    \/ \E event \in NavEvents : handle(event)
    \/ tick(60000)
    \/ \E scene \in Scenes : push_scene(scene)
    \/ back

\* the events of the rotary encoder
EncoderEvents ==
    { e \in Events : e.type \in {"ENCODER_DETENT", "ENCODER_PRESS"} }

\* the controller driven by the rotary encoder alone
EncoderNext == \E event \in EncoderEvents : handle(event)

\* an event that marks the canvas, one that does not, and one that may
DirtyEvents ==
    { e \in Events : e.type \in {"FLASH_TOGGLE", "SHUTDOWN", "TOUCH_UP"} }

\* the renderer popping the dirty list between events, ticks and marks
\* the events that open and close the sidebar without a touch
AnimEvents == { InputEvent(t, <<0, 0>>, 0) : t \in {"ENCODER_PRESS", "BACK"} }

\* the dt of tick calls while the sidebar slides: none, 50 us, 1/16 s
\* (half of the way) and 0.6 s (all of the way)
AnimDts == {0, 5, 6250, 60000}

AnimNext ==
    \/ \E event \in AnimEvents : handle(event)
    \/ \E dt \in AnimDts : tick(dt)

\* the events that set a toast: the shutter button and a touch on the
\* capture control
ToastEvents ==
    { InputEvent("SHUTTER_PRESS", <<0, 0>>, 0),
      InputEvent("TOUCH_DOWN",
                 Centre(build_hitboxes(0)[3].rect), 0),
      InputEvent("TOUCH_UP", NoHitPoint, 0),
      InputEvent("TOGGLE_LANG", <<0, 0>>, 0) }

\* the dt of tick calls while a toast shows: 50 us, 0.3 s and 0.6 s
ToastDts == {5, 30000, 60000}

ToastNext ==
    \/ set_hitboxes
    \/ \E event \in ToastEvents : handle(event)
    \/ \E dt \in ToastDts : tick(dt)

DirtyNext ==
    \/ pop_dirty
    \/ \E rect \in CallerRects : mark_dirty(rect)
    \/ \E event \in DirtyEvents : handle(event)
    \/ \E dt \in Dts : tick(dt)

-----------------------------------------------------------------------------
(* CameraProcess setters (camera_service.py) and the simulator's zoom     *)
(* inputs (main_pc_sim.py)                                                 *)

\* exposure compensations a caller passes, in tenths of an EV
EvInputs == {-30, -20, 0, 20, 25}

\* zoom factors a caller passes, in tenths
ZoomInputs == {5, 10, 25, 40, 50}

\* CameraProcess.__init__ leaves camera at None; no control has been set;
\* the simulator starts in the camera scene at zoom 1.0
CamInit ==
    /\ camera = "None"
    /\ ExposureValue = <<>>
    /\ zoom_level = 10
    /\ sim_scene = "CAMERA"
    /\ camCalls = 0
    /\ camLast = [op |-> "none", arg |-> 0]

\* _init_camera: without the hardware library it returns; otherwise it
\* builds a Picamera2, and an exception on the way sets camera to None
init_camera ==
    /\ camera = "None"
    /\ camCalls = 0
    /\ procCalls = 0
    /\ runPc = "idle"
    /\ camera' = "Picamera2"
    /\ UNCHANGED <<ExposureValue, zoom_level, sim_scene, camCalls, camLast>>
    /\ UNCHANGED nonCamVars

\* CameraProcess.set_zoom: returns without a camera, and with one does
\* nothing either
set_zoom(zoom) ==
    /\ camCalls < MaxCamCalls
    /\ camCalls' = camCalls + 1
    /\ camLast' = [op |-> "set_zoom", arg |-> zoom]
    /\ UNCHANGED <<camera, ExposureValue, zoom_level, sim_scene>>
    /\ UNCHANGED nonCamVars

\* the value set_exposure_compensation hands to camera.set_controls
AppliedEv(ev) == ev

\* CameraProcess.set_exposure_compensation: returns without a camera;
\* otherwise camera.set_controls({'ExposureValue': ev}), whose exception is
\* swallowed and leaves the control as it was
set_exposure_compensation(ev) ==
    /\ camCalls < MaxCamCalls
    /\ camCalls' = camCalls + 1
    /\ camLast' = [op |-> "set_exposure_compensation", arg |-> ev]
    /\ IF camera = "None"
       THEN UNCHANGED ExposureValue
       ELSE \/ ExposureValue' = <<AppliedEv(ev)>>
            \/ UNCHANGED ExposureValue
    /\ UNCHANGED <<camera, zoom_level, sim_scene>>
    /\ UNCHANGED nonCamVars

\* InputHandler.handle, K_TAB: toggles between camera and gallery
key_tab ==
    /\ camCalls < MaxCamCalls
    /\ camCalls' = camCalls + 1
    /\ camLast' = [op |-> "key_tab", arg |-> 0]
    /\ sim_scene' = IF sim_scene = "CAMERA" THEN "GALLERY" ELSE "CAMERA"
    /\ UNCHANGED <<camera, ExposureValue, zoom_level>>
    /\ UNCHANGED nonCamVars

\* InputHandler.handle, K_PLUS in the camera scene: min(4.0, zoom_level + 0.5)
key_plus ==
    /\ camCalls < MaxCamCalls
    /\ camCalls' = camCalls + 1
    /\ camLast' = [op |-> "key_plus", arg |-> 0]
    /\ zoom_level' = IF sim_scene = "CAMERA"
                     THEN Min(40, zoom_level + 5) ELSE zoom_level
    /\ UNCHANGED <<camera, ExposureValue, sim_scene>>
    /\ UNCHANGED nonCamVars

\* InputHandler.handle, K_MINUS in the camera scene: max(1.0, zoom_level - 0.5)
key_minus ==
    /\ camCalls < MaxCamCalls
    /\ camCalls' = camCalls + 1
    /\ camLast' = [op |-> "key_minus", arg |-> 0]
    /\ zoom_level' = IF sim_scene = "CAMERA"
                     THEN Max(10, zoom_level - 5) ELSE zoom_level
    /\ UNCHANGED <<camera, ExposureValue, sim_scene>>
    /\ UNCHANGED nonCamVars

\* InputHandler.handle, double tap in the camera scene: toggles 2x zoom
double_tap ==
    /\ camCalls < MaxCamCalls
    /\ camCalls' = camCalls + 1
    /\ camLast' = [op |-> "double_tap", arg |-> 0]
    /\ zoom_level' = IF sim_scene = "CAMERA"
                     THEN (IF zoom_level > 15 THEN 10 ELSE 20) ELSE zoom_level
    /\ UNCHANGED <<camera, ExposureValue, sim_scene>>
    /\ UNCHANGED nonCamVars

CamNext ==
    \/ init_camera
    \/ \E zoom \in ZoomInputs : set_zoom(zoom)
    \/ \E ev \in EvInputs : set_exposure_compensation(ev)
    \/ key_tab
    \/ key_plus
    \/ key_minus
    \/ double_tap

-----------------------------------------------------------------------------
(* CameraProcess lifecycle and capture loop (camera_service.py)            *)

\* how one camera.capture_array("main") call ends
CaptureOutcomes == {"frame", "null", "raise"}

\* capture_preview_frame's return value: None without a camera or with the
\* preview inactive; else the frame capture_array returned (None counts as
\* one), or None when capture_array raised
CaptureResult(cam, active, outcome) ==
    IF cam = "None" \/ ~active THEN "None"
    ELSE IF outcome = "frame" THEN "frame" ELSE "None"

\* the camera was asked for a frame and gave none
CameraMissed(cam, active, outcome) ==
    cam # "None" /\ active /\ outcome # "frame"

\* preview_active after start_preview: untouched without a camera or when
\* camera.start() raised, else True
PreviewAfterStart_unguarded(cam, active, raised) == TRUE

PreviewAfterStart(cam, active, raised) ==
    IF cam = "None" \/ raised THEN active ELSE TRUE

\* preview_active after stop_preview: untouched without a camera, with the
\* preview inactive or when camera.stop() raised, else False
PreviewAfterStop(cam, active, raised) ==
    IF cam = "None" \/ ~active \/ raised THEN active ELSE FALSE

\* no capture_photo call has been made
NoPhoto ==
    [callback |-> "None", failAt |-> "none", was_previewing |-> FALSE,
     camera |-> "None", args |-> <<>>, file_written |-> FALSE,
     propagated |-> FALSE]

\* CameraProcess.__init__ before _init_camera
ProcInit ==
    /\ running = FALSE
    /\ preview_active = FALSE
    /\ recording = FALSE
    /\ frame_count = 0
    /\ dropped_frames = 0
    /\ capture_count = 0
    /\ runPc = "idle"
    /\ runW = 0
    /\ capRet = "none"
    /\ missed = 0
    /\ frames_ready = 0
    /\ procCalls = 0
    /\ procLast = [op |-> "none", raised |-> FALSE, ret |-> "none"]
    /\ shutdown_called = FALSE
    /\ photo = NoPhoto

start_preview(raised) ==
    /\ procCalls < MaxProcCalls
    /\ procCalls' = procCalls + 1
    /\ preview_active' = PreviewAfterStart(camera, preview_active, raised)
    /\ procLast' = [op |-> "start_preview",
                    raised |-> (camera # "None" /\ raised), ret |-> "None"]
    /\ UNCHANGED <<running, recording, frame_count, dropped_frames,
                   capture_count, runPc, runW, capRet, missed, frames_ready>>
    /\ UNCHANGED <<shutdown_called, photo>>
    /\ UNCHANGED nonProcVars

stop_preview(raised) ==
    /\ procCalls < MaxProcCalls
    /\ procCalls' = procCalls + 1
    /\ preview_active' = PreviewAfterStop(camera, preview_active, raised)
    /\ procLast' = [op |-> "stop_preview",
                    raised |-> (camera # "None" /\ preview_active /\ raised),
                    ret |-> "None"]
    /\ UNCHANGED <<running, recording, frame_count, dropped_frames,
                   capture_count, runPc, runW, capRet, missed, frames_ready>>
    /\ UNCHANGED <<shutdown_called, photo>>
    /\ UNCHANGED nonProcVars

\* capture_preview_frame() called on its own
capture_preview_frame(outcome) ==
    /\ procCalls < MaxProcCalls
    /\ procCalls' = procCalls + 1
    /\ capRet' = CaptureResult(camera, preview_active, outcome)
    /\ missed' = IF CameraMissed(camera, preview_active, outcome)
                   THEN missed + 1 ELSE missed
    /\ procLast' = [op |-> "capture_preview_frame",
                    raised |-> (camera # "None" /\ preview_active
                                  /\ outcome = "raise"),
                    ret |-> capRet']
    /\ UNCHANGED <<running, preview_active, recording, frame_count,
                   dropped_frames, capture_count, runPc, runW, frames_ready>>
    /\ UNCHANGED <<shutdown_called, photo>>
    /\ UNCHANGED nonProcVars

\* where capture_photo's try block is left by a camera error, if anywhere:
\* while the still capture is set up, in capture_file, in the camera.stop
\* after it, or while the preview configuration is put back
PhotoFailures ==
    {"none", "still_setup", "capture_file", "camera_stop", "preview_setup"}

\* what the caller passed as callback: nothing, a function that returns, or
\* one that raises
Callbacks == {"None", "returns", "raises"}

\* the try block is left by the camera error: the preview configuration is
\* put back only if the preview was active
PhotoFails_capture_only(active, failAt) ==
    failAt \in {"still_setup", "capture_file"}

PhotoFails(active, failAt) ==
    \/ failAt \in {"still_setup", "capture_file", "camera_stop"}
    \/ failAt = "preview_setup" /\ active

\* capture_file returned: the photo is on disk
FileWritten(failAt) == failAt \notin {"still_setup", "capture_file"}

\* preview_active after capture_photo, the camera present
PreviewAfterPhoto(active, stopRaised, failAt, startRaised) ==
    IF ~active THEN FALSE
    ELSE LET stopped == PreviewAfterStop("Picamera2", active, stopRaised)
         IN IF PhotoFails(active, failAt) THEN stopped
            ELSE PreviewAfterStart("Picamera2", stopped, startRaised)

\* the success arguments the callback was invoked with, in order: one call
\* without a camera or after a camera error; after a capture one call with
\* True, and when that call raised a second one from the except block
CallbackArgs(cam, callback, failed) ==
    IF callback = "None" THEN <<>>
    ELSE IF cam = "None" \/ failed THEN <<FALSE>>
    ELSE IF callback = "raises" THEN <<TRUE, FALSE>>
    ELSE <<TRUE>>

\* capture_photo(filepath, callback): the argument of the last callback
\* invocation goes to ret; an exception leaves the method only from a
\* callback invoked outside the try block
capture_photo(stopRaised, failAt, startRaised, callback) ==
    /\ procCalls < MaxProcCalls
    /\ procCalls' = procCalls + 1
    /\ LET failed == camera # "None" /\ PhotoFails(preview_active, failAt)
           args == CallbackArgs(camera, callback, failed)
       IN /\ photo' = [callback |-> callback, failAt |-> failAt,
                       was_previewing |-> preview_active,
                       camera |-> camera, args |-> args,
                       file_written |-> (camera # "None" /\ FileWritten(failAt)),
                       propagated |-> (callback = "raises")]
          /\ procLast' = [op |-> "capture_photo", raised |-> failed,
                          ret |-> IF camera # "None" /\ ~failed
                                    THEN "True" ELSE "False"]
          /\ IF camera = "None"
               THEN UNCHANGED <<preview_active, capture_count>>
               ELSE /\ preview_active' =
                          PreviewAfterPhoto(preview_active, stopRaised, failAt,
                                            startRaised)
                    /\ capture_count' = IF failed THEN capture_count
                                        ELSE capture_count + 1
    /\ UNCHANGED <<running, recording, frame_count, dropped_frames, runPc,
                   runW, capRet, missed, frames_ready>>
    /\ UNCHANGED shutdown_called
    /\ UNCHANGED nonProcVars

\* run(), lines 344-348: self.running = True; self.start_preview()
run_begin(raised) ==
    /\ runPc = "idle"
    /\ running' = TRUE
    /\ preview_active' = PreviewAfterStart(camera, preview_active, raised)
    /\ runPc' = "loop"
    /\ procLast' = [op |-> "run", raised |-> (camera # "None" /\ raised),
                    ret |-> "None"]
    /\ UNCHANGED <<recording, frame_count, dropped_frames, capture_count,
                   runW, capRet, missed, frames_ready, procCalls>>
    /\ UNCHANGED <<shutdown_called, photo>>
    /\ UNCHANGED nonProcVars

\* update_stats(): once a second has passed frame_count restarts from zero
AfterUpdateStats(count, second_passed) == IF second_passed THEN 0 ELSE count

\* run(), lines 350-355 and 367-378: the loop test, capture_preview_frame,
\* and for a missing frame the rest of the iteration
run_capture(outcome, second_passed) ==
    /\ runPc = "loop"
    /\ running
    /\ procCalls < MaxProcCalls
    /\ CaptureResult(camera, preview_active, outcome) = "frame"
          => wCalls < MaxWrites
    /\ procCalls' = procCalls + 1
    /\ capRet' = CaptureResult(camera, preview_active, outcome)
    /\ missed' = IF CameraMissed(camera, preview_active, outcome)
                   THEN missed + 1 ELSE missed
    /\ procLast' = [op |-> "run_capture",
                    raised |-> (camera # "None" /\ preview_active
                                  /\ outcome = "raise"),
                    ret |-> capRet']
    /\ IF capRet' = "frame"
         THEN /\ runPc' = "write"
              /\ runW' = wCalls
              /\ UNCHANGED frame_count
         ELSE /\ frame_count' = AfterUpdateStats(frame_count, second_passed)
              /\ UNCHANGED <<runPc, runW>>
    /\ UNCHANGED <<running, preview_active, recording, dropped_frames,
                   capture_count, frames_ready>>
    /\ UNCHANGED <<shutdown_called, photo>>
    /\ UNCHANGED nonProcVars

\* run(), line 358: self.ipc.frame_buffer.write_frame(frame) begins
run_write_enter ==
    /\ runPc = "write"
    /\ wCalls = runW
    /\ \E shape \in Shapes : write_frame_enter(shape)

\* write_frame's copy and index flip while run() waits for its return
run_write_step ==
    /\ runPc = "write"
    /\ wCalls > runW
    /\ \/ \E p \in Pixels : write_frame_copy(p)
       \/ write_frame_swap

\* "if success:" on write_frame's return value
WriteAccepted_always(ret) == TRUE

WriteAccepted(ret) == ret = "True"

\* run(), lines 360-365: write_frame has returned; notify the UI and count
\* the frame, or count the drop
run_after_write ==
    /\ runPc = "write"
    /\ wCalls > runW
    /\ wPc = "idle"
    /\ IF WriteAccepted(wRet)
         THEN /\ frames_ready' = frames_ready + 1
              /\ frame_count' = frame_count + 1
              /\ UNCHANGED dropped_frames
         ELSE /\ dropped_frames' = dropped_frames + 1
              /\ UNCHANGED <<frame_count, frames_ready>>
    /\ runPc' = "stats"
    /\ procLast' = [op |-> "run_after_write", raised |-> FALSE, ret |-> wRet]
    /\ UNCHANGED <<running, preview_active, recording, capture_count, runW,
                   capRet, missed, procCalls>>
    /\ UNCHANGED <<shutdown_called, photo>>
    /\ UNCHANGED nonProcVars

\* run(), lines 367-378: update_stats and the frame pacing, after a frame
\* was written or dropped
run_update_stats(second_passed) ==
    /\ runPc = "stats"
    /\ frame_count' = AfterUpdateStats(frame_count, second_passed)
    /\ runPc' = "loop"
    /\ procLast' = [op |-> "run_update_stats", raised |-> FALSE,
                    ret |-> "None"]
    /\ UNCHANGED <<running, preview_active, recording, dropped_frames,
                   capture_count, runW, capRet, missed, frames_ready,
                   procCalls>>
    /\ UNCHANGED <<shutdown_called, photo>>
    /\ UNCHANGED nonProcVars

\* run(), lines 350 and 380: the loop test fails; self.stop_preview()
run_end(raised) ==
    /\ runPc = "loop"
    /\ ~running
    /\ preview_active' = PreviewAfterStop(camera, preview_active, raised)
    /\ runPc' = "done"
    /\ procLast' = [op |-> "run_end",
                    raised |-> (camera # "None" /\ preview_active /\ raised),
                    ret |-> "None"]
    /\ UNCHANGED <<running, recording, frame_count, dropped_frames,
                   capture_count, runW, capRet, missed, frames_ready,
                   procCalls>>
    /\ UNCHANGED <<shutdown_called, photo>>
    /\ UNCHANGED nonProcVars

\* shutdown(): self.running = False
shutdown ==
    /\ running' = FALSE
    /\ shutdown_called' = TRUE
    /\ procLast' = [op |-> "shutdown", raised |-> FALSE, ret |-> "None"]
    /\ UNCHANGED <<preview_active, recording, frame_count, dropped_frames,
                   capture_count, runPc, runW, capRet, missed, frames_ready,
                   procCalls>>
    /\ UNCHANGED photo
    /\ UNCHANGED nonProcVars

\* what a step of run() changes: its position, the iterations made and the
\* progress of the write_frame call it waits for
runVars == <<runPc, procCalls, wCalls, wPc, wCopied>>

\* the steps of run() after its first lines: the capture loop and the
\* cleanup
RunLoop ==
    \/ \E outcome \in CaptureOutcomes, second_passed \in BOOLEAN :
          run_capture(outcome, second_passed)
    \/ run_write_enter
    \/ run_write_step
    \/ run_after_write
    \/ \E second_passed \in BOOLEAN : run_update_stats(second_passed)
    \/ \E raised \in BOOLEAN : run_end(raised)

ProcNext ==
    \/ init_camera
    \/ \E raised \in BOOLEAN : start_preview(raised)
    \/ \E raised \in BOOLEAN : stop_preview(raised)
    \/ \E outcome \in CaptureOutcomes : capture_preview_frame(outcome)
    \/ \E raised \in BOOLEAN : run_begin(raised)
    \/ \E outcome \in CaptureOutcomes, second_passed \in BOOLEAN :
          run_capture(outcome, second_passed)
    \/ run_write_enter
    \/ run_write_step
    \/ run_after_write
    \/ \E second_passed \in BOOLEAN : run_update_stats(second_passed)
    \/ \E raised \in BOOLEAN : run_end(raised)
    \/ shutdown

\* a camera process whose methods are called one by one, capture_photo
\* among them, while run() is not started
PhotoNext ==
    \/ init_camera
    \/ \E raised \in BOOLEAN : start_preview(raised)
    \/ \E raised \in BOOLEAN : stop_preview(raised)
    \/ \E outcome \in CaptureOutcomes : capture_preview_frame(outcome)
    \/ \E stopRaised \in BOOLEAN, failAt \in PhotoFailures,
          startRaised \in BOOLEAN, callback \in Callbacks :
              capture_photo(stopRaised, failAt, startRaised, callback)

-----------------------------------------------------------------------------
(* RotaryEncoder (rotary_encoder.py); times in milliseconds               *)

\* debounce_ms = 2.0 and long_press_ms = 500, the constructor's defaults
debounce_time == 2
long_press_time == 500

\* the clock reading when the encoder is constructed
ClockStart == 1000

\* TRANSITION_TABLE[old_AB][new_AB]: 1 = CW, -1 = CCW, 0 = invalid
TRANSITION_TABLE ==
    << << 0,  1, -1,  0>>,
       <<-1,  0,  0,  1>>,
       << 1,  0,  0, -1>>,
       << 0, -1,  1,  0>> >>

\* the 2-bit states (a << 1) | b the pins can show
PinStates == 0..3

\* time that passes between two steps: 1 ms, 0.5 s
ClockSteps == {1, 500}

\* self.rotation_times[-5:]
Last5(times) ==
    IF Len(times) <= 5 THEN times ELSE SubSeq(times, Len(times) - 4, Len(times))

\* now - self.last_event_time >= self.debounce_time
DebounceOk_always(now, last) == TRUE

DebounceOk(now, last) == now - last >= debounce_time

\* RotaryDirection.CW if raw_count > 0 else RotaryDirection.CCW
DirectionOf(raw) == IF raw > 0 THEN "CW" ELSE "CCW"

\* self.position += raw_count
PositionAfter_one_step(pos, raw) == pos + (IF raw > 0 THEN 1 ELSE -1)

PositionAfter(pos, raw) == pos + raw

\* RotaryEncoder.__init__ with callbacks registered; the pins read 00
RotaryInit ==
    /\ position = 0
    /\ last_state = 0
    /\ last_event_time = 0
    /\ rotation_times = <<>>
    /\ button_pressed = FALSE
    /\ button_press_time = 0
    /\ long_press_triggered = FALSE
    /\ raw_counter = 0
    /\ pin_ab = 0
    /\ pin_button_level = 1
    /\ encClock = ClockStart
    /\ pollPc = "idle"
    /\ pollNow = 0
    /\ raw_count = 0
    /\ rotateLog = <<>>
    /\ pressLog = <<>>
    /\ nIsr = 0
    /\ nPolls = 0
    /\ nAdv = 0
    /\ nPress = 0
    /\ pollLast = [raw |-> 0, accepted |-> FALSE]
    /\ counter_lock = "free"
    /\ isrTotal = 0
    /\ polledTotal = 0
    /\ press_duration = 0
    /\ button_release_time = 0
    /\ isrButtonPc = "idle"

\* time passes
clock_advance(dt) ==
    /\ nAdv < MaxClockSteps
    /\ nAdv' = nAdv + 1
    /\ encClock' = encClock + dt
    /\ UNCHANGED <<position, last_state, last_event_time, rotation_times,
                   button_pressed, button_press_time, long_press_triggered,
                   raw_counter, pin_ab, pin_button_level, pollPc, pollNow,
                   raw_count, rotateLog, pressLog, nIsr, nPolls, nPress,
                   pollLast>>
    /\ UNCHANGED <<counter_lock, isrTotal, polledTotal>>
    /\ UNCHANGED <<press_duration, button_release_time, isrButtonPc>>
    /\ UNCHANGED nonRotVars

\* with self._counter_lock: the lock can be taken
LockFree_ignored(lock) == TRUE

LockFree(lock) == lock = "free"

\* the knob moves the pins to new_state and the edge runs _isr_encoder:
\* the table lookup, the increment under the lock (the ISR waits while
\* poll() holds it), and last_state
isr_encoder(new_state) ==
    LET direction == TRANSITION_TABLE[last_state + 1][new_state + 1]
    IN /\ nIsr < MaxIsr
       /\ direction # 0 => LockFree(counter_lock)
       /\ nIsr' = nIsr + 1
       /\ pin_ab' = new_state
       /\ raw_counter' = raw_counter + direction
       /\ isrTotal' = isrTotal + direction
       /\ last_state' = new_state
       /\ UNCHANGED <<position, last_event_time, rotation_times,
                      button_pressed, button_press_time, long_press_triggered,
                      pin_button_level, encClock, pollPc, pollNow, raw_count,
                      rotateLog, pressLog, nPolls, nAdv, nPress, pollLast>>
       /\ UNCHANGED <<counter_lock, polledTotal>>
       /\ UNCHANGED <<press_duration, button_release_time, isrButtonPc>>
    /\ UNCHANGED nonRotVars

\* _isr_button() runs on the GPIO callback thread at the falling edge of the
\* button pin; line 239
isr_button ==
    /\ nPress < MaxPresses
    /\ isrButtonPc = "idle"
    /\ pin_button_level = 1
    /\ nPress' = nPress + 1
    /\ pin_button_level' = 0
    /\ button_pressed' = TRUE
    /\ isrButtonPc' = "time"
    /\ UNCHANGED <<position, last_state, last_event_time, rotation_times,
                   button_press_time, long_press_triggered, raw_counter,
                   pin_ab, encClock, pollPc, pollNow, raw_count, rotateLog,
                   pressLog, nIsr, nPolls, nAdv, pollLast>>
    /\ UNCHANGED <<counter_lock, isrTotal, polledTotal>>
    /\ UNCHANGED <<press_duration, button_release_time>>
    /\ UNCHANGED nonRotVars

\* _isr_button(), line 240
isr_button_time ==
    /\ isrButtonPc = "time"
    /\ isrButtonPc' = "flag"
    /\ button_press_time' = encClock
    /\ UNCHANGED <<position, last_state, last_event_time, rotation_times,
                   button_pressed, long_press_triggered, raw_counter, pin_ab,
                   pin_button_level, encClock, pollPc, pollNow, raw_count,
                   rotateLog, pressLog, nIsr, nPolls, nAdv, nPress, pollLast>>
    /\ UNCHANGED <<counter_lock, isrTotal, polledTotal>>
    /\ UNCHANGED <<press_duration, button_release_time>>
    /\ UNCHANGED nonRotVars

\* _isr_button(), line 241
isr_button_flag ==
    /\ isrButtonPc = "flag"
    /\ isrButtonPc' = "idle"
    /\ long_press_triggered' = FALSE
    /\ UNCHANGED <<position, last_state, last_event_time, rotation_times,
                   button_pressed, button_press_time, raw_counter, pin_ab,
                   pin_button_level, encClock, pollPc, pollNow, raw_count,
                   rotateLog, pressLog, nIsr, nPolls, nAdv, nPress, pollLast>>
    /\ UNCHANGED <<counter_lock, isrTotal, polledTotal>>
    /\ UNCHANGED <<press_duration, button_release_time>>
    /\ UNCHANGED nonRotVars

\* the button comes up again; no interrupt is attached to the rising edge
button_release ==
    /\ pin_button_level = 0
    /\ pin_button_level' = 1
    /\ button_release_time' = encClock
    /\ UNCHANGED <<position, last_state, last_event_time, rotation_times,
                   button_pressed, button_press_time, long_press_triggered,
                   raw_counter, pin_ab, encClock, pollPc, pollNow, raw_count,
                   rotateLog, pressLog, nIsr, nPolls, nAdv, nPress, pollLast>>
    /\ UNCHANGED <<counter_lock, isrTotal, polledTotal, press_duration,
                   isrButtonPc>>
    /\ UNCHANGED nonRotVars

\* poll(), lines 253-259: the clock is read, the lock is taken and the raw
\* counter is read
poll_begin ==
    /\ pollPc = "idle"
    /\ nPolls < MaxPolls
    /\ nPolls' = nPolls + 1
    /\ pollNow' = encClock
    /\ counter_lock' = "poll"
    /\ raw_count' = raw_counter
    /\ pollPc' = "locked"
    /\ UNCHANGED <<position, last_state, last_event_time, rotation_times,
                   button_pressed, button_press_time, long_press_triggered,
                   raw_counter, pin_ab, pin_button_level, encClock, rotateLog,
                   pressLog, nIsr, nAdv, nPress, pollLast>>
    /\ UNCHANGED <<isrTotal, polledTotal>>
    /\ UNCHANGED <<press_duration, button_release_time, isrButtonPc>>
    /\ UNCHANGED nonRotVars

\* poll(), line 260: the raw counter is reset and the lock is released
poll_reset ==
    /\ pollPc = "locked"
    /\ raw_counter' = 0
    /\ polledTotal' = polledTotal + raw_count
    /\ counter_lock' = "free"
    /\ pollPc' = "rotation"
    /\ UNCHANGED <<position, last_state, last_event_time, rotation_times,
                   button_pressed, button_press_time, long_press_triggered,
                   pin_ab, pin_button_level, encClock, pollNow, raw_count,
                   rotateLog, pressLog, nIsr, nPolls, nAdv, nPress, pollLast>>
    /\ UNCHANGED isrTotal
    /\ UNCHANGED <<press_duration, button_release_time, isrButtonPc>>
    /\ UNCHANGED nonRotVars

\* poll(), lines 262-302: the debounce test and the dispatch of a rotation
poll_rotation ==
    /\ pollPc = "rotation"
    /\ pollPc' = "button"
    /\ IF raw_count # 0 /\ DebounceOk(pollNow, last_event_time)
         THEN /\ position' = PositionAfter(position, raw_count)
              /\ rotation_times' = Last5(Append(rotation_times, pollNow))
              /\ rotateLog' = Append(rotateLog, DirectionOf(raw_count))
              /\ last_event_time' = pollNow
              /\ pollLast' = [raw |-> raw_count, accepted |-> TRUE]
         ELSE /\ pollLast' = [raw |-> raw_count, accepted |-> FALSE]
              /\ UNCHANGED <<position, rotation_times, rotateLog,
                             last_event_time>>
    /\ UNCHANGED <<last_state, button_pressed, button_press_time,
                   long_press_triggered, raw_counter, pin_ab, pin_button_level,
                   encClock, pollNow, raw_count, pressLog, nIsr, nPolls, nAdv,
                   nPress>>
    /\ UNCHANGED <<counter_lock, isrTotal, polledTotal>>
    /\ UNCHANGED <<press_duration, button_release_time, isrButtonPc>>
    /\ UNCHANGED nonRotVars

\* a callback invocation, with the number of the press it follows
Callback(name) == [cb |-> name, press |-> nPress]

\* "if not self.long_press_triggered:" before on_press
ShortPress(triggered) == ~triggered

\* poll(), lines 304-307: the test of button_pressed and press_duration
poll_button ==
    /\ pollPc = "button"
    /\ IF button_pressed
         THEN /\ press_duration' = pollNow - button_press_time
              /\ pollPc' = "long"
         ELSE /\ pollPc' = "idle"
              /\ UNCHANGED press_duration
    /\ UNCHANGED <<position, last_state, last_event_time, rotation_times,
                   button_pressed, button_press_time, long_press_triggered,
                   raw_counter, pin_ab, pin_button_level, encClock, pollNow,
                   raw_count, rotateLog, pressLog, nIsr, nPolls, nAdv, nPress,
                   pollLast>>
    /\ UNCHANGED <<counter_lock, isrTotal, polledTotal, button_release_time,
                   isrButtonPc>>
    /\ UNCHANGED nonRotVars

\* poll(), lines 309-314: long-press detection
poll_long ==
    /\ pollPc = "long"
    /\ pollPc' = "release"
    /\ IF ~long_press_triggered /\ press_duration >= long_press_time
         THEN /\ long_press_triggered' = TRUE
              /\ pressLog' = Append(pressLog, Callback("long_press"))
         ELSE UNCHANGED <<long_press_triggered, pressLog>>
    /\ UNCHANGED <<position, last_state, last_event_time, rotation_times,
                   button_pressed, button_press_time, raw_counter, pin_ab,
                   pin_button_level, encClock, pollNow, raw_count, rotateLog,
                   nIsr, nPolls, nAdv, nPress, pollLast>>
    /\ UNCHANGED <<counter_lock, isrTotal, polledTotal>>
    /\ UNCHANGED <<press_duration, button_release_time, isrButtonPc>>
    /\ UNCHANGED nonRotVars

\* poll(), lines 316-328: the pin is read; on release a short press is
\* reported and button_pressed is cleared
poll_release ==
    /\ pollPc = "release"
    /\ pollPc' = "idle"
    /\ IF pin_button_level = 0
         THEN UNCHANGED <<pressLog, button_pressed>>
         ELSE /\ pressLog' = IF ShortPress(long_press_triggered)
                               THEN Append(pressLog, Callback("press"))
                               ELSE pressLog
              /\ button_pressed' = FALSE
    /\ UNCHANGED <<position, last_state, last_event_time, rotation_times,
                   button_press_time, long_press_triggered, raw_counter,
                   pin_ab, pin_button_level, encClock, pollNow, raw_count,
                   rotateLog, nIsr, nPolls, nAdv, nPress, pollLast>>
    /\ UNCHANGED <<counter_lock, isrTotal, polledTotal>>
    /\ UNCHANGED <<press_duration, button_release_time, isrButtonPc>>
    /\ UNCHANGED nonRotVars

\* reset_position(), called by the thread that polls
reset_position ==
    /\ pollPc = "idle"
    /\ position # 0
    /\ position' = 0
    /\ UNCHANGED <<last_state, last_event_time, rotation_times, button_pressed,
                   button_press_time, long_press_triggered, raw_counter, pin_ab,
                   pin_button_level, encClock, pollPc, pollNow, raw_count,
                   rotateLog, pressLog, nIsr, nPolls, nAdv, nPress, pollLast>>
    /\ UNCHANGED <<counter_lock, isrTotal, polledTotal>>
    /\ UNCHANGED <<press_duration, button_release_time, isrButtonPc>>
    /\ UNCHANGED nonRotVars

\* the knob turns while the main loop polls; the button is left alone
RotaryNext ==
    \/ \E dt \in ClockSteps : clock_advance(dt)
    \/ \E new_state \in PinStates : isr_encoder(new_state)
    \/ poll_begin
    \/ poll_reset
    \/ poll_rotation
    \/ poll_button
    \/ reset_position

\* the button is pressed and released while the main loop polls; the knob
\* is left alone
ButtonNext ==
    \/ /\ pollPc = "idle"
       /\ isrButtonPc = "idle"
       /\ \E dt \in ClockSteps : clock_advance(dt)
    \/ isr_button
    \/ isr_button_time
    \/ isr_button_flag
    \/ button_release
    \/ poll_begin
    \/ poll_reset
    \/ poll_rotation
    \/ poll_button
    \/ poll_long
    \/ poll_release

-----------------------------------------------------------------------------
(* HapticController and DRV2605L (haptic_driver.py); amplitudes in        *)
(* hundredths                                                              *)

\* config['base_amplitude'] values a caller configures; 60 is also what an
\* absent key defaults to
ConfigAmplitudes == {-50, 0, 60, 100, 150}

\* set_intensity arguments
Intensities == {-20, 0, 30, 100, 130}

\* the amplitude arguments of the feedback methods' play_effect calls, and
\* the two ends of encoder_detent's adaptive amplitude
EffectAmplitudes == {30, 50, 60, 70, 80, 90, 100}

\* max(0.0, min(1.0, amplitude))
ClampUnit(a) == IF a < 0 THEN 0 ELSE IF a > 100 THEN 100 ELSE a

\* before HapticController(config) has run
HapInit ==
    /\ hapConstructed = FALSE
    /\ base_amplitude = 0
    /\ amplitude_scale = 0
    /\ hap_initialized = FALSE
    /\ final_amplitude = 0
    /\ requested = 0
    /\ hapCalls = 0

\* HapticController(config): DRV2605L() sets amplitude_scale = 1.0 and
\* initialized; then base_amplitude = config.get('base_amplitude', 0.6) and
\* driver.set_amplitude(base_amplitude)
HapticController(cfg) ==
    /\ ~hapConstructed
    /\ hapConstructed' = TRUE
    /\ hap_initialized' = TRUE
    /\ base_amplitude' = cfg
    /\ amplitude_scale' = ClampUnit(cfg)
    /\ requested' = cfg
    /\ UNCHANGED <<final_amplitude, hapCalls>>
    /\ UNCHANGED nonHapVars

\* set_intensity(intensity)
set_intensity(intensity) ==
    /\ hapConstructed
    /\ hapCalls < MaxHapCalls
    /\ hapCalls' = hapCalls + 1
    /\ base_amplitude' = ClampUnit(intensity)
    /\ amplitude_scale' = ClampUnit(base_amplitude')
    /\ requested' = intensity
    /\ UNCHANGED <<hapConstructed, hap_initialized, final_amplitude>>
    /\ UNCHANGED nonHapVars

\* a feedback method: driver.play_effect(effect, amplitude) computes
\* final_amplitude = min(1.0, amplitude * amplitude_scale)
play_effect(amplitude) ==
    /\ hapConstructed
    /\ hapCalls < MaxHapCalls
    /\ hapCalls' = hapCalls + 1
    /\ final_amplitude' = IF hap_initialized
                            THEN Min(100, (amplitude * amplitude_scale) \div 100)
                            ELSE final_amplitude
    /\ UNCHANGED <<hapConstructed, hap_initialized, base_amplitude,
                   amplitude_scale, requested>>
    /\ UNCHANGED nonHapVars

HapNext ==
    \/ \E cfg \in ConfigAmplitudes : HapticController(cfg)
    \/ \E intensity \in Intensities : set_intensity(intensity)
    \/ \E amplitude \in EffectAmplitudes : play_effect(amplitude)

-----------------------------------------------------------------------------
(* Specifications *)

\* the state after construction of the buffer, of a saver that is not run
\* and of the controller
FbParkedInit == FbInit /\ SvParked /\ CtlInit /\ CamInit /\ ProcInit
                /\ RotaryInit /\ HapInit

\* one writer and one reader on the frame buffer; the saver stands still
FbSpec == FbParkedInit /\ [][FbNext]_vars

SaverNext == UiNext \/ WorkerNext

\* the state after construction of either saver; the frame buffer stands still
Init == FbInit /\ SvInit /\ CtlInit /\ CamInit /\ ProcInit
                /\ RotaryInit /\ HapInit

SaverSpec == Init /\ [][SaverNext]_vars

\* the worker is a thread of its own: whenever it can take a step it
\* eventually does
SaverFairSpec == SaverSpec /\ WF_vars(WorkerNext)

\* the controller driven by events, ticks and the renderer's hitboxes
CtlSpec == FbParkedInit /\ [][CtlNext]_vars

\* the state after construction, before a run of encoder events
EncoderInit == FbInit /\ SvParked /\ CtlInitWith(MaxEncoderCalls) /\ CamInit
                 /\ ProcInit /\ RotaryInit /\ HapInit

EncoderSpec == EncoderInit /\ [][EncoderNext]_vars

\* the state after construction, before a run with a renderer that pops
DirtyInit == FbInit /\ SvParked /\ CtlInitWith(MaxDirtyCalls) /\ CamInit
               /\ ProcInit /\ RotaryInit /\ HapInit

DirtySpec == DirtyInit /\ [][DirtyNext]_vars

\* the state after construction, before a run that animates the sidebar
AnimInit == FbInit /\ SvParked /\ CtlInitWith(MaxAnimCalls) /\ CamInit
            /\ ProcInit /\ RotaryInit /\ HapInit

AnimSpec == AnimInit /\ [][AnimNext]_vars

\* the state after construction, before a run that shows toasts
ToastInit == FbInit /\ SvParked /\ CtlInitWith(MaxToastCalls) /\ CamInit
             /\ ProcInit /\ RotaryInit /\ HapInit

ToastSpec == ToastInit /\ [][ToastNext]_vars

\* the state after construction, before a run that steps the mode indices
IndexInit == FbInit /\ SvParked /\ CtlInitWith(MaxIndexCalls) /\ CamInit
             /\ ProcInit /\ RotaryInit /\ HapInit

IndexSpec == IndexInit /\ [][IndexNext]_vars

\* the state after construction, before a run that moves between scenes
NavInit == FbInit /\ SvParked /\ CtlInitWith(MaxNavCalls) /\ CamInit
           /\ ProcInit /\ RotaryInit /\ HapInit

NavSpec == NavInit /\ [][NavNext]_vars

\* the camera process's setters and the simulator's zoom inputs
CamSpec == FbParkedInit /\ [][CamNext]_vars

\* a camera process: its methods called one by one and its capture loop
\* writing to the frame buffer
ProcSpec == FbParkedInit /\ [][ProcNext]_vars

\* run() is the body of a process of its own: whenever its loop can take a
\* step it eventually does
ProcFairSpec == ProcSpec /\ WF_runVars(RunLoop)

\* a camera process taking photos between preview calls
PhotoSpec == FbParkedInit /\ [][PhotoNext]_vars

\* a rotary encoder: the knob moves, interrupts run, the main loop polls
RotarySpec == FbParkedInit /\ [][RotaryNext]_vars

\* a haptic controller: constructed, then its intensity set and effects
\* played
HapSpec == FbParkedInit /\ [][HapNext]_vars

\* a rotary encoder whose button is pressed
ButtonSpec == FbParkedInit /\ [][ButtonNext]_vars

-----------------------------------------------------------------------------
(* Claims about SharedFrameBuffer, checked under FbSpec *)

\* C1: for every interleaving of one writer and one reader, the pixels the
\* reader sees through the view read_frame returned all come from a single
\* write_frame call (0 marks memory no write_frame has stored to yet and is
\* not counted as a write).
C1_NoTornRead == \A x \in rObs \ {0} : \A y \in rObs \ {0} : x = y

\* C5: a write_frame call whose frame has another shape than
\* (height, width, 3) has returned False and has left the active index and
\* both slots as they were when the call began.
C5_ShapeMismatchPublishesNothing ==
    (wCalls > 0 /\ wFrame.shape # <<Height, Width, 3>>) =>
        /\ wPc = "idle"
        /\ wRet = "False"
        /\ <<metadata, buffer_a, buffer_b>> = wBefore

\* C5 witness: after a successful write, a call with a wrong shape was
\* rejected while the reader holds the published frame.
C5_Witness ==
    /\ wOk >= 1
    /\ wFrame.shape # <<Height, Width, 3>>
    /\ wRet = "False"
    /\ rPc = "using"
    /\ ~rEarly

\* C10: a read_frame made before any write_frame has succeeded returns
\* "no frame yet" (None) instead of a frame.
C10_NoFrameBeforeFirstWrite == (rPc = "using" /\ rEarly) => rRet = "None"

\* C11: whenever no write_frame call is in progress and one has succeeded,
\* the view read_frame returns shows in every pixel the frame of the most
\* recent successful write; a successful write has flipped the active index
\* between 0 and 1 and has left the frame published before it in the slot
\* that is now inactive.
C11_ReadReturnsLatestWrite ==
    /\ metadata[3] \in {0, 1}
    /\ (wPc = "idle" /\ wOk > 0) =>
           Deref(ViewOf(metadata[3])) = [p \in Pixels |-> wLastOk]
    /\ (wPc = "idle" /\ wCalls > 0 /\ wRet = "True") =>
           /\ wLastOk = wFrame.data
           /\ metadata[3] = 1 - wBefore[1][3]
           /\ Deref(ViewOf(wBefore[1][3]))
                  = (IF wBefore[1][3] = 0 THEN wBefore[2] ELSE wBefore[3])

\* C11 witness: after a second successful write the reader, alone on the
\* buffer, has read every pixel of the returned view and seen that write.
C11_Witness ==
    /\ wPc = "idle"
    /\ wOk >= 2
    /\ wRet = "True"
    /\ rPc = "using"
    /\ rRet = ViewOf(metadata[3])
    /\ rRead = Pixels
    /\ rObs = {wLastOk}

-----------------------------------------------------------------------------
(* Claims about the save pipeline, checked under SaverSpec / SaverFairSpec *)

\* C2: the queue never holds more than maxsize tasks; the captures accepted
\* and not yet dequeued never exceed maxsize (so of maxsize + 1 requests with
\* no dequeue in between at most maxsize are accepted); and with the queue
\* full the UI thread's put step can still be taken at once (it does not
\* wait for room).
C2_BackpressureBound ==
    /\ Len(q) <= maxsize
    /\ Len(accepted) - nDeq <= maxsize
    /\ (variant = "sim" /\ uiPc = "put") => ENABLED sim_enqueue_put
    /\ (variant = "final" /\ uiPc = "idle" /\ nCaptures < MaxCaptures)
           => ENABLED final_save_photo_async

\* C2 witness: the queue is full and the last request was turned away.
C2_Witness ==
    /\ Len(q) = maxsize
    /\ putOutcome = "Full"
    /\ uiPc = "idle"
    /\ nCaptures = maxsize + 1
    /\ nDeq = 0

\* C3: a capture requested while the queue is full is reported to the
\* caller: the call does not return as an accepted one does, or a callback
\* has been invoked with success = false.
C3_RejectionReported ==
    putOutcome = "Full" =>
        (uiRet # "None" \/ \E c \in callbackLog : c.success = FALSE)

\* C4: the k-th task the worker takes is the k-th task accepted, the queue
\* holds the later ones in acceptance order, and when the worker begins the
\* save of the k-th task the k-1 saves before it have all ended.
C4_FifoOneAtATime ==
    /\ nDeq <= Len(accepted)
    /\ nDeq > 0 => wkTask.id = accepted[nDeq]
    /\ Len(q) = Len(accepted) - nDeq
    /\ \A i \in 1..Len(q) : q[i].id = accepted[nDeq + i]
    /\ wkPc = "save" => nDone = nDeq - 1
    /\ wkPc # "save" => nDone = nDeq

\* C4 witness: the worker is saving its second or later task while another
\* accepted capture waits.
C4_Witness ==
    /\ wkPc = "save"
    /\ nDeq >= 2
    /\ Len(q) >= 2

\* C6: a save that raises never ends the worker thread: with the worker
\* scheduled fairly, after a save has raised the worker takes the next
\* queued task (also one enqueued only later) and begins its save.
C6_WorkerSurvivesSaveError ==
    /\ [](wkPc # "dead")
    /\ (wkResult.status = "raised" /\ q # <<>>) ~> (wkPc = "save")

\* C6 witness: after a save raised, the worker is saving a later task.
C6_Witness ==
    /\ wkResult.status = "raised"
    /\ wkPc = "save"
    /\ nDeq >= 2

\* C7: the image a save attempt wrote is the task's filter and date stamp
\* applied to the pixels the captured surface had when the capture was
\* requested, whatever was drawn into that surface since.
C7_SavedImageIsSnapshot ==
    (nDeq > 0 /\ nDone = nDeq /\ wkResult.status = "saved") =>
        wkResult.image = [filter |-> wkTask.filter, stamp |-> wkTask.stamp,
                          pixels |-> wkTask.req]

\* C7 witness: a task was saved after the surface it was captured from had
\* been redrawn.
C7_Witness ==
    /\ nDeq > 0
    /\ nDone = nDeq
    /\ wkResult.status = "saved"
    /\ bg_surface # wkTask.req

\* C8: every accepted capture is either still queued or has been taken by
\* the worker exactly once, no save attempt is repeated or abandoned, and
\* with the worker scheduled fairly no accepted capture stays pending: a
\* run makes finitely many requests, and from some point on the save
\* attempt of every accepted capture has ended.
C8_EveryAcceptedTaskRunsOnce ==
    /\ [](/\ [i \in 1..Len(q) |-> q[i].id]
               = [i \in 1..(Len(accepted) - nDeq) |-> accepted[nDeq + i]]
          /\ nDone <= nDeq
          /\ nDeq <= nDone + 1
          /\ \A i \in 1..Len(accepted) : \A j \in 1..Len(accepted) :
                 accepted[i] = accepted[j] => i = j)
    /\ <>[](nDone = Len(accepted))

\* C8 witness: all accepted captures of a run that overran the queue have
\* been processed.
C8_Witness ==
    /\ nCaptures = MaxCaptures
    /\ nDone = Len(accepted)
    /\ nDone >= maxsize
    /\ q = <<>>

\* C9: once stop() has run on a service that has accepted a capture, a
\* poison task has been enqueued for the worker or the worker has already
\* exited.
C9_StopPoisonsWorker ==
    ("stop" \in svcCalls /\ Len(accepted) >= 1) =>
        ((\E i \in 1..Len(q) : IsPoison(q[i])) \/ wkPc = "exited")

\* C23: CameraService.start() activates the service: once start() has run,
\* and until stop() runs, there is a live camera process behind the service;
\* once stop() has run there is none; a second start() or stop() changes
\* nothing.
C23_StartActivatesStopDeactivates ==
    /\ ("start" \in svcCalls /\ "stop" \notin svcCalls) => process = "alive"
    /\ "stop" \in svcCalls => process # "alive"

-----------------------------------------------------------------------------
(* Claims about AppController, checked under CtlSpec / EncoderSpec / DirtySpec *)

\* C12: any N ENCODER_DETENT(delta = +1) events handled in a row (N the
\* number of filter names) pass through every filter index once and end on
\* the index they started from; and from the current index a +1 detent
\* followed by a -1 detent, or a -1 followed by a +1, gives the index back.
C12_FilterWrap ==
    LET N == Len(FILTERS)
        idx == state.filter_idx
    IN /\ \A k \in 1..(Len(trail) - N) :
              /\ trail[k + N] = trail[k]
              /\ {trail[j] : j \in k..(k + N - 1)} = 0..(N - 1)
       /\ DetentStep(DetentStep(idx, 1), -1) = idx
       /\ DetentStep(DetentStep(idx, -1), 1) = idx

\* C12 witness: N detents in a row, started from an index other than 0, have
\* been handled.
C12_Witness ==
    /\ lastCall.op = "handle"
    /\ lastCall.event.type = "ENCODER_DETENT"
    /\ Len(trail) = Len(FILTERS) + 1
    /\ trail[1] # 0
    /\ state.filter_idx = trail[1]

\* C13: a handled BACK event with the sidebar open and a navigation stack of
\* depth 1 closes the sidebar and leaves scene, stack and shutdown flag as
\* they were; with the sidebar closed and depth > 1 it pops the stack and
\* sets the scene to the new top; with the sidebar closed and depth 1 it
\* sets shutdown_requested.
C13_BackPrecedence ==
    [][ (nCalls' = nCalls + 1 /\ lastCall'.op = "handle"
            /\ lastCall'.event.type = "BACK") =>
        LET depth == Len(state.nav_stack)
        IN /\ (state.sidebar_open /\ depth = 1) =>
                  /\ ~state'.sidebar_open
                  /\ state'.scene = state.scene
                  /\ state'.nav_stack = state.nav_stack
                  /\ state'.shutdown_requested = state.shutdown_requested
           /\ (~state.sidebar_open /\ depth > 1) =>
                  /\ state'.nav_stack = SubSeq(state.nav_stack, 1, depth - 1)
                  /\ state'.scene = state.nav_stack[depth - 1]
                  /\ state'.shutdown_requested = state.shutdown_requested
                  /\ ~state'.sidebar_open
           /\ (~state.sidebar_open /\ depth = 1) =>
                  /\ state'.shutdown_requested
                  /\ state'.scene = state.scene
                  /\ state'.nav_stack = state.nav_stack
      ]_vars

\* C13 witness: after a touch on the thumbnail had opened the gallery, a
\* BACK event has been handled and the scene is the camera again.
C13_Witness ==
    /\ lastCall.op = "handle"
    /\ lastCall.event.type = "BACK"
    /\ state.touch_target = "thumb"
    /\ state.nav_stack = <<"CAMERA">>
    /\ state.scene = "CAMERA"
    /\ ~state.shutdown_requested

\* C14: a handled BACK event pops the navigation stack whenever its depth
\* is greater than 1, whether or not the sidebar is open; with depth 1 it
\* closes an open sidebar; with depth 1 and the sidebar closed it sets
\* shutdown_requested.
C14_BackPopsBeforeSidebar ==
    [][ (nCalls' = nCalls + 1 /\ lastCall'.op = "handle"
            /\ lastCall'.event.type = "BACK") =>
        LET depth == Len(state.nav_stack)
        IN /\ depth > 1 =>
                  /\ state'.nav_stack = SubSeq(state.nav_stack, 1, depth - 1)
                  /\ state'.scene = state.nav_stack[depth - 1]
           /\ (depth = 1 /\ state.sidebar_open) => ~state'.sidebar_open
           /\ (depth = 1 /\ ~state.sidebar_open) => state'.shutdown_requested
      ]_vars

\* C15: a handled SHUTDOWN event sets shutdown_requested and changes no
\* other AppState field but the recorded input latency; and no call ever
\* clears shutdown_requested once it is set.
C15_ShutdownFlagOnly ==
    [][ /\ (nCalls' = nCalls + 1 /\ lastCall'.op = "handle"
               /\ lastCall'.event.type = "SHUTDOWN") =>
              /\ state'.shutdown_requested
              /\ [state' EXCEPT !.last_input_latency_ms = 0]
                    = [state EXCEPT !.shutdown_requested = TRUE,
                                    !.last_input_latency_ms = 0]
        /\ state.shutdown_requested => state'.shutdown_requested
      ]_vars

\* C15 witness: shutdown was requested by a SHUTDOWN event (nothing was
\* marked dirty by the first call) and the flag is still set after a later
\* event that is not a SHUTDOWN.
C15_Witness ==
    /\ state.shutdown_requested
    /\ nCalls = 2
    /\ Len(marked) = 1
    /\ lastCall.op = "handle"
    /\ lastCall.event.type = "ENCODER_PRESS"

\* C16: a handled TOUCH_MOVE at horizontal position x, while the touch
\* target is the haptics slider with hitbox (x0, _, w, _), sets
\* haptics_strength to (clamp(x, x0, x0 + w) - x0) / w; a TOUCH_MOVE while the
\* touch target is anything else leaves haptics_strength unchanged; and
\* haptics_strength always lies in [0, 1].
C16_SliderDrag ==
    /\ [](/\ state.haptics_strength[2] > 0
          /\ 0 <= state.haptics_strength[1]
          /\ state.haptics_strength[1] <= state.haptics_strength[2])
    /\ [][ (nCalls' = nCalls + 1 /\ lastCall'.op = "handle"
               /\ lastCall'.event.type = "TOUCH_MOVE") =>
           IF state.touch_target = "haptics"
             THEN \E i \in 1..Len(hitboxes) :
                    /\ hitboxes[i].key = "haptics"
                    /\ LET x0 == hitboxes[i].rect[1]
                           w  == hitboxes[i].rect[3]
                           x  == lastCall'.event.pos[1]
                           cx == IF x < x0 THEN x0
                                 ELSE IF x > x0 + w THEN x0 + w ELSE x
                       IN /\ w > 0
                          /\ state'.haptics_strength = <<cx - x0, w>>
             ELSE state'.haptics_strength = state.haptics_strength
         ]_vars

\* C16 witness: a touch that began on the slider has been dragged to 75% of
\* the slider's width and haptics_strength is 0.75.
C16_Witness ==
    /\ lastCall.op = "handle"
    /\ lastCall.event.type = "TOUCH_MOVE"
    /\ state.touch_target = "haptics"
    /\ state.touch_down
    /\ 4 * state.haptics_strength[1] = 3 * state.haptics_strength[2]

\* C17: in the Gallery scene a handled TOUCH_UP with an accumulated swipe of
\* more than 24 px selects the next gallery index, one with an accumulated
\* swipe below -24 px selects the previous index (not below zero), both
\* reset the accumulated swipe to 0, and one with an accumulated swipe
\* within the threshold leaves gallery_index unchanged.
C17_SwipeDirection ==
    [][ (nCalls' = nCalls + 1 /\ lastCall'.op = "handle"
            /\ lastCall'.event.type = "TOUCH_UP" /\ state.scene = "GALLERY") =>
        LET swipe == state.gallery_swipe_x
            px24  == 24 * 10000
        IN /\ swipe > px24 =>
                  /\ state'.gallery_index = state.gallery_index + 1
                  /\ state'.gallery_swipe_x = 0
           /\ swipe < -px24 =>
                  /\ state'.gallery_index
                        = (IF state.gallery_index = 0 THEN 0
                           ELSE state.gallery_index - 1)
                  /\ state'.gallery_swipe_x = 0
           /\ (-px24 <= swipe /\ swipe <= px24) =>
                  state'.gallery_index = state.gallery_index
      ]_vars

\* C18: every handle or tick call that changes an AppState field other than
\* last_input_latency_ms and dirty_rects appends at least one rectangle to
\* dirty_rects.
C18_MutationMarksDirty ==
    [][ (nCalls' = nCalls + 1 /\ lastCall'.op \in {"handle", "tick"}
            /\ [state' EXCEPT !.last_input_latency_ms = 0, !.dirty_rects = <<>>]
                 # [state EXCEPT !.last_input_latency_ms = 0, !.dirty_rects = <<>>])
        => Len(state'.dirty_rects) > Len(state.dirty_rects)
      ]_vars

\* C19: dirty_rects holds exactly the rectangles marked and not yet returned
\* by a pop_dirty, in marking order; each pop_dirty returns the rectangles
\* marked since the previous one, in marking order, and leaves the list
\* empty, so no rectangle is returned twice and a pop_dirty that follows
\* another directly returns the empty list.
C19_PopDirtyOnce ==
    /\ [](/\ nPopped <= Len(marked)
          /\ state.dirty_rects = SubSeq(marked, nPopped + 1, Len(marked))
          /\ Len(popRet) <= nPopped
          /\ popRet = SubSeq(marked, nPopped - Len(popRet) + 1, nPopped)
          /\ lastCall.op = "pop_dirty" => state.dirty_rects = <<>>)
    /\ [][ (lastCall.op = "pop_dirty" /\ lastCall'.op = "pop_dirty")
              => popRet' = <<>> ]_vars

\* C19 witness: a pop_dirty has returned two different rectangles after an
\* earlier pop_dirty had returned others.
C19_Witness ==
    /\ lastCall.op = "pop_dirty"
    /\ Len(popRet) = 2
    /\ popRet[1] # popRet[2]
    /\ nPopped > Len(popRet)
    /\ state.dirty_rects = <<>>

-----------------------------------------------------------------------------
(* Claims about the zoom and exposure setters, checked under CamSpec *)

\* C20: the exposure compensation the camera has been given lies within
\* [-2.0, 2.0] EV whatever value set_exposure_compensation was called with
\* (out-of-range values arrive clamped), and the zoom level lies within
\* [1.0, 4.0] after any sequence of zoom inputs.
C20_ZoomEvClamped ==
    /\ \A i \in DOMAIN ExposureValue :
          ExposureValue[i] >= -20 /\ ExposureValue[i] <= 20
    /\ zoom_level >= 10 /\ zoom_level <= 40

-----------------------------------------------------------------------------
(* Claims about CameraProcess, checked under ProcSpec *)

\* C21: capture_preview_frame never raises and returns None whenever the
\* camera gave no frame, and the dropped-frame counter equals the number of
\* times the camera was asked for a frame and gave none.
C21_DroppedCountsMissed ==
    /\ (procLast.op \in {"capture_preview_frame", "run_capture"}
          /\ procLast.raised) => capRet = "None"
    /\ dropped_frames = missed

C29_TouchHitTest ==
    [][ /\ (nCalls' = nCalls + 1 /\ lastCall'.op = "handle"
              /\ lastCall'.event.type = "TOUCH_DOWN") =>
              LET p == lastCall'.event.pos
                  hits == {i \in 1..Len(hitboxes) :
                              /\ hitboxes[i].rect[1] <= p[1]
                              /\ p[1] <= hitboxes[i].rect[1] + hitboxes[i].rect[3]
                              /\ hitboxes[i].rect[2] <= p[2]
                              /\ p[2] <= hitboxes[i].rect[2] + hitboxes[i].rect[4]}
                  touched == [state EXCEPT !.touch_down = TRUE,
                                           !.touch_pos = p]
              IN /\ hits = {} =>
                       state' = [touched EXCEPT !.touch_target = "None",
                                                !.last_input_latency_ms = 0]
                 /\ hits # {} =>
                       LET first == CHOOSE i \in hits : \A j \in hits : i <= j
                           key == hitboxes[first].key
                       IN /\ state'.touch_target = key
                          /\ state'.touch_down
                          /\ state'.touch_pos = p
                          /\ state'.pressed_until = perf_counter + 11000
                          /\ Len(state'.dirty_rects) > Len(state.dirty_rects)
                          /\ key = "handle" =>
                                state'.sidebar_open = ~state.sidebar_open
                          /\ key = "capture" =>
                                (state'.toast # ""
                                   /\ state'.toast_until = perf_counter + 60000)
                          /\ key = "thumb" => state'.scene = "GALLERY"
                          /\ key = "filter_wheel" =>
                                state'.filter_idx =
                                    (state.filter_idx + 1) % Len(FILTERS)
                          /\ key = "grid" =>
                                state'.grid_mode_idx =
                                    (state.grid_mode_idx + 1) % Len(GRID_MODES)
                          /\ key = "level" =>
                                state'.level_mode_idx =
                                    (state.level_mode_idx + 1) % Len(LEVEL_MODES)
                          /\ key = "lang" => state'.lang # state.lang
                          /\ key = "gallery_next" =>
                                state'.gallery_index = state.gallery_index + 1
                          /\ key # "lang" => state'.lang = state.lang
                          /\ key \notin {"handle", "back"} =>
                                state'.sidebar_open = state.sidebar_open
        /\ (nCalls' = nCalls + 1 /\ lastCall'.op = "handle"
              /\ lastCall'.event.type = "TOUCH_UP") =>
              (~state'.touch_down /\ state'.touch_target = "None")
      ]_vars

\* C29 witness: with the open sidebar's rectangles registered, a touch on a
\* point that the thumbnail and the language row both hold went to the
\* thumbnail, which is registered first.
C29_Witness ==
    /\ lastCall.op = "handle"
    /\ lastCall.event.type = "TOUCH_DOWN"
    /\ state.touch_target = "thumb"
    /\ state.scene = "GALLERY"
    /\ state.lang = "en"
    /\ Len(hitboxes) = 11
    /\ hitboxes[9].key = "lang"
    /\ InRect(lastCall.event.pos, hitboxes[9].rect)

-----------------------------------------------------------------------------
(* Claims about the sidebar animation, checked under AnimSpec *)

\* C24: ENCODER_PRESS toggles sidebar_open and leaves the animation value
\* where it is; sidebar_anim stays within [0, 1]; and every tick(dt) with
\* dt >= 0 leaves sidebar_anim between its old value and its target (1 if
\* sidebar_open else 0), so the distance to the target never grows and the
\* target is never overshot.
C24_SidebarAnimConverges ==
    /\ [](state.sidebar_anim >= 0 /\ state.sidebar_anim <= 10000)
    /\ [][ /\ (nCalls' = nCalls + 1 /\ lastCall'.op = "handle"
                 /\ lastCall'.event.type = "ENCODER_PRESS") =>
                 /\ state'.sidebar_open = ~state.sidebar_open
                 /\ state'.sidebar_anim = state.sidebar_anim
           /\ (nCalls' = nCalls + 1 /\ lastCall'.op = "tick") =>
                 LET target == IF state.sidebar_open THEN 10000 ELSE 0
                     before == state.sidebar_anim
                     after  == state'.sidebar_anim
                 IN /\ state'.sidebar_open = state.sidebar_open
                    /\ Abs(target - after) <= Abs(target - before)
                    /\ Min(before, target) <= after
                    /\ after <= Max(before, target)
         ]_vars

\* C24 witness: the sidebar was half open when it was told to close, and a
\* tick has moved it half of the way back from there.
C24_Witness ==
    /\ lastCall.op = "tick"
    /\ ~state.sidebar_open
    /\ state.sidebar_anim = 2500

-----------------------------------------------------------------------------
(* Claims about the toast, checked under ToastSpec *)

\* C25: SHUTTER_PRESS and a press on the capture control set a toast whose
\* deadline is 0.6 s after the press, also when a toast is already showing;
\* a tick that runs while a toast shows clears it (and marks the canvas
\* dirty) exactly when the clock has passed the deadline; nothing but a tick
\* clears a toast.
C25_ToastExpiry ==
    [][ /\ (nCalls' = nCalls + 1 /\ lastCall'.op = "handle"
              /\ \/ lastCall'.event.type = "SHUTTER_PRESS"
                 \/ (lastCall'.event.type = "TOUCH_DOWN"
                       /\ state'.touch_target = "capture")) =>
              /\ state'.toast # ""
              /\ state'.toast_until = perf_counter + 60000
        /\ (nCalls' = nCalls + 1 /\ lastCall'.op = "tick"
              /\ state.toast # "") =>
              /\ state'.toast_until = state.toast_until
              /\ (state'.toast = "") <=> (perf_counter' > state.toast_until)
              /\ state'.toast = "" =>
                    NewRects(state, state') # <<>>
              /\ state'.toast # "" => state'.toast = state.toast
        /\ (nCalls' = nCalls + 1 /\ lastCall'.op = "handle"
              /\ state.toast # "") => state'.toast # ""
      ]_vars

\* C25 witness: a toast was set again while one was showing, it outlived
\* the first deadline, and the tick after the second deadline cleared it.
C25_Witness ==
    /\ lastCall.op = "tick"
    /\ state.toast = ""
    /\ state.toast_until > 60000
    /\ perf_counter > state.toast_until
    /\ perf_counter - lastCall.dt <= state.toast_until
    /\ perf_counter - lastCall.dt > 60000

-----------------------------------------------------------------------------
(* Claims about RotaryEncoder, checked under RotarySpec *)

\* C26: when poll() has read a non-zero raw count less than debounce_time
\* after the rotation it accepted last, it leaves position and the time of
\* the last accepted rotation as they were and calls no rotation callback.
C26_DebounceIgnores ==
    [][ (pollPc = "rotation" /\ pollPc' = "button" /\ raw_count # 0
           /\ rotation_times # <<>>
           /\ pollNow - rotation_times[Len(rotation_times)] < debounce_time) =>
            /\ position' = position
            /\ rotateLog' = rotateLog
            /\ rotation_times' = rotation_times
            /\ last_event_time' = last_event_time
      ]_vars

\* C26 witness: of two counts polled within the debounce time only the
\* first one moved the position.
C26_Witness ==
    /\ pollPc = "button"
    /\ pollLast = [raw |-> 1, accepted |-> FALSE]
    /\ Len(rotateLog) = 1
    /\ position = 1
    /\ nPolls = 2

\* C27: poll() resets the raw counter to zero as it reads it; a poll that
\* has read a non-zero count outside the debounce window adds exactly that
\* count to position and calls on_rotate once, with CW for a positive and
\* CCW for a negative count; a poll that has read zero changes neither
\* position nor the debounce state and calls no rotation callback.
C27_PollAppliesCount ==
    [][ /\ (pollPc = "idle" /\ pollPc' = "locked") =>
              raw_count' = raw_counter
        /\ (pollPc = "locked" /\ pollPc' = "rotation") =>
              (raw_count = raw_counter /\ raw_counter' = 0)
        /\ (pollPc = "rotation" /\ pollPc' = "button" /\ raw_count # 0
              /\ (rotation_times = <<>>
                    \/ pollNow - rotation_times[Len(rotation_times)]
                          >= debounce_time)) =>
              /\ position' = position + raw_count
              /\ rotateLog' =
                    Append(rotateLog, IF raw_count > 0 THEN "CW" ELSE "CCW")
        /\ (pollPc = "rotation" /\ pollPc' = "button" /\ raw_count = 0) =>
              /\ position' = position
              /\ rotateLog' = rotateLog
              /\ rotation_times' = rotation_times
              /\ last_event_time' = last_event_time
      ]_vars

\* C27 witness: a poll read a count of -2 and moved the position by two with
\* a single CCW callback.
C27_Witness ==
    /\ pollPc = "button"
    /\ pollLast = [raw |-> -2, accepted |-> TRUE]
    /\ rotateLog = <<"CCW">>
    /\ position = -2
    /\ raw_counter = 0

-----------------------------------------------------------------------------
(* Claims about HapticController, checked under HapSpec *)

\* C28: once a HapticController is constructed, and after any set_intensity
\* calls, base_amplitude is the value asked for last (the configured one or
\* the last set_intensity argument) clamped to [0, 1], and the driver's
\* amplitude_scale equals it.
C28_AmplitudeClampedAndShared ==
    hapConstructed =>
        /\ base_amplitude =
              (IF requested < 0 THEN 0
               ELSE IF requested > 100 THEN 100 ELSE requested)
        /\ amplitude_scale = base_amplitude

-----------------------------------------------------------------------------
(* Claims about the mode indices, checked under IndexSpec *)

\* C30: in every reachable state, whatever the events and the deltas of the
\* detents were, filter_idx, grid_mode_idx and level_mode_idx index into
\* FILTERS, GRID_MODES and LEVEL_MODES, so filter_name, grid_mode and
\* level_mode are defined.
C30_IndicesInRange ==
    /\ state.filter_idx \in 0..(Len(FILTERS) - 1)
    /\ state.grid_mode_idx \in 0..(Len(GRID_MODES) - 1)
    /\ state.level_mode_idx \in 0..(Len(LEVEL_MODES) - 1)

\* C30 witness: a detent of -7 has taken filter_idx from the first to the
\* last filter, and the grid mode has come round to its first entry again,
\* the last step of it by a touch on the grid row.
C30_Witness ==
    /\ lastCall.op = "handle"
    /\ lastCall.event.type = "ENCODER_DETENT"
    /\ lastCall.event.delta = -7
    /\ state.filter_idx = Len(FILTERS) - 1
    /\ state.level_mode_idx = 0
    /\ state.grid_mode_idx = 0
    /\ state.touch_target = "grid"
    /\ nCalls = MaxIndexCalls

-----------------------------------------------------------------------------
(* Claims about navigation and the gallery, checked under NavSpec *)

\* C31: in every reachable state the navigation stack is non-empty, its
\* bottom element is Scene.CAMERA, its top element is the current scene, and
\* no two adjacent elements are equal, whatever push_scene, back, touch and
\* BACK calls came before.
C31_NavStackShape ==
    LET stack == state.nav_stack
    IN /\ Len(stack) >= 1
       /\ stack[1] = "CAMERA"
       /\ stack[Len(stack)] = state.scene
       /\ \A i \in 1..(Len(stack) - 1) : stack[i] # stack[i + 1]

\* C31 witness: with the sidebar closed, a back() as the fourth call of a run
\* without touches has popped CAMERA off the stack CAMERA, GALLERY, CAMERA
\* that two pushes built, so GALLERY is shown again.
C31_Witness ==
    /\ lastCall.op = "back"
    /\ state.nav_stack = <<"CAMERA", "GALLERY">>
    /\ state.scene = "GALLERY"
    /\ ~state.shutdown_requested
    /\ nCalls = 4
    /\ state.touch_target = "None"
    /\ state.dirty_rects = <<>>


\* C32: gallery_index is never negative, and no call on the controller - a
\* press of gallery_prev or gallery_next, a swipe, its release, a tick -
\* changes it by more than one.
C32_GalleryIndexSteps ==
    /\ [](state.gallery_index >= 0)
    /\ [][Abs(state'.gallery_index - state.gallery_index) <= 1]_vars

\* C32 witness: in the gallery, gallery_index has reached 2, one step by a
\* press and one by the release of a swipe to the left.
C32_Witness ==
    /\ state.scene = "GALLERY"
    /\ state.gallery_index = 2
    /\ lastCall.op = "handle"
    /\ lastCall.event.type = "TOUCH_UP"
    /\ state.gallery_swipe_x = 0
    /\ nCalls = 4

\* C33: while the scene is CAMERA and the controller holds the hitboxes the
\* renderer built from the state it drew, no input event changes
\* gallery_index, gallery_swipe_x or gallery_velocity.
C33_GalleryOnlyInGallery ==
    [][(/\ state.scene = "CAMERA"
        /\ hitboxes = build_hitboxes(state.sidebar_anim)
        /\ nCalls' = nCalls + 1
        /\ lastCall'.op = "handle")
       => /\ state'.gallery_index = state.gallery_index
          /\ state'.gallery_swipe_x = state.gallery_swipe_x
          /\ state'.gallery_velocity = state.gallery_velocity]_vars

-----------------------------------------------------------------------------
(* Claims about the simulator's buffer_busy flag, checked under SaverSpec *)

\* C34: in the simulator's AsyncPhotoSaver, for every interleaving of the UI
\* thread's enqueue calls with the worker loop, buffer_busy is true whenever
\* a save task is queued or being saved, and it is false once the queue has
\* drained and the worker waits for the next task with no enqueue under way,
\* also after an enqueue that the full queue rejected.
C34_BusyWhileSaving ==
    variant = "sim" =>
      /\ (q # <<>> \/ wkPc = "save") => buffer_busy
      /\ (q = <<>> /\ wkPc = "get" /\ uiPc = "idle") => ~buffer_busy

-----------------------------------------------------------------------------
(* Claims about the capture loop, checked under ProcSpec *)

-----------------------------------------------------------------------------
(* Claims about the capture loop's end, checked under ProcFairSpec *)

\* C35: once shutdown() has been called on a CameraProcess whose run() is in
\* its capture loop, run() eventually leaves the loop and stops the preview,
\* whatever the order of the two calls was - shutdown() before run() has set
\* running to true included.
C35_ShutdownEndsRun ==
    (shutdown_called /\ runPc \in {"loop", "write", "stats"})
        ~> (runPc = "done")

-----------------------------------------------------------------------------
(* Claims about capture_photo, checked under PhotoSpec *)

C40_PreviewRestored ==
    [][(procCalls' = procCalls + 1 /\ procLast'.op = "capture_photo"
          /\ preview_active) => preview_active']_vars

-----------------------------------------------------------------------------
(* Claims about the encoder's raw counter, checked under RotarySpec *)

\* C37: the raw counter is modified only under its lock - by the ISR while
\* poll() does not hold it, or by poll() holding it - and for every
\* interleaving of ISR increments with poll()'s read and reset every valid
\* quadrature transition is in exactly one poll's raw count or still in the
\* counter: none is lost and none is counted twice.
C37_CounterUnderLock ==
    /\ [](isrTotal = polledTotal + raw_counter)
    /\ [](pollPc = "locked" => raw_count = raw_counter)
    /\ [][raw_counter' # raw_counter =>
             \/ counter_lock = "free" /\ nIsr' = nIsr + 1
             \/ counter_lock = "poll" /\ counter_lock' = "free"]_vars

\* C37 witness: two polls have read raw counts that sum to 1, a valid
\* transition has come in since, and a third poll holds the lock with that
\* transition read and not yet reset.
C37_Witness ==
    /\ pollPc = "locked"
    /\ nPolls = 3
    /\ polledTotal = 1
    /\ raw_count = 1
    /\ isrTotal = 2
    /\ nIsr = MaxIsr

-----------------------------------------------------------------------------
(* Claims about the encoder's button, checked under ButtonSpec *)

\* C38: for each button press (one _isr_button run) at most one callback is
\* made over the following polls - on_long_press at most once, on_press at
\* most once, never both; on_press is made only with the button up and a
\* press that was held for less than long_press_time; and once a poll has
\* seen the release (button_pressed cleared) no callback is made until the
\* next press.
C38_OneCallbackPerPress ==
    /\ [](\A i \in 1..Len(pressLog) : \A j \in 1..Len(pressLog) :
            pressLog[i].press = pressLog[j].press => i = j)
    /\ [][(Len(pressLog') > Len(pressLog)
           /\ pressLog'[Len(pressLog')].cb = "press") =>
             /\ pin_button_level # 0
             /\ button_release_time - button_press_time < long_press_time]_vars
    /\ [][(~button_pressed /\ ~button_pressed') => pressLog' = pressLog]_vars

=============================================================================
